---- MODULE Spec2Model ----
(***************************************************************************)
(* mikaana API: the vote ledger (api/src/votes.rs), the comment store      *)
(* (api/src/comments.rs), the forum (api/src/forum.rs), the identity       *)
(* resolver (api/src/auth.rs) and their tables (api/src/db.rs).            *)
(*                                                                         *)
(* Every SQL statement is one atomic step of the store (SQLite runs each   *)
(* autocommit statement on its own); a handler that issues several         *)
(* statements is several steps, and other requests may run between them.   *)
(* A statement fails only by violating a constraint of the schema.         *)
(***************************************************************************)
EXTENDS Integers, FiniteSets, Sequences, Bags, TLC

\* ------------------------------------------------------------------ bounds
NumUsers == 2
NumProcs == 2
MaxComments == 2
MaxThreads == 21
FewThreads == 1
MaxFetches == 3
MixedThreads == 1
MaxReplies == 1
MaxTime == 1

Users == 1..NumUsers
Procs == 1..NumProcs

\* Option<T>: None is the empty set, Some(v) the singleton.
None == {}
Some(v) == {v}

\* ------------------------------------------------------------------ inputs
\* Authorization headers: absent, not a "Bearer <jwt>" value, a token signed
\* with another secret, an expired token, a valid token. A token names a user.
Headers ==
    {[kind |-> "absent", sub |-> 0], [kind |-> "malformed", sub |-> 0]}
    \cup {[kind |-> k, sub |-> u] : k \in {"badsig", "expired", "valid"}, u \in Users}

ValidHeaders == {h \in Headers : h.kind = "valid"}
BadCredentials == Headers \ ValidHeaders

\* Targets of votes: any string and any id; nothing has to exist under them.
TargetTypes == {"gadget"}
TargetIds == {1}
Values == {-1, 0, 1, 2}
Payloads(types, ids, values) ==
    {[target_type |-> tt, target_id |-> tid, value |-> v] :
        tt \in types, tid \in ids, v \in values}

\* Keys of the external posts comments hang on.
Slugs == {"post-a", "post-b"}

\* Free text, as a sequence of pieces: "sp" is white space, "Hello" is plain
\* text, "script" is a <script>..</script> element.
RawTexts == {<<"sp">>, <<"script", "Hello">>}
CommentTexts ==
    {<<>>, <<"sp">>, <<"script">>, <<"sp", "script">>, <<"script", "Hello">>,
     <<"sp", "Hello", "sp">>}

\* The categories run_migrations seeds: id -> slug.
Categories == [id \in 1..3 |-> <<"general", "projects", "help">>[id]]
CategorySlugs == {"general", "nowhere"}
ListedSlugs == {"general", "projects", "nowhere"}

VARIABLES
    votes,    \* the votes table: a bag of rows (id and created_at are never read)
    calls,    \* calls[p]: the cast_vote call worker p is running, or idle
    resp,     \* the response sent by the step just taken, if it sent one
    obs,      \* observation: per worker, the overlap of its call and its outcome
    hist,     \* observation: the last two calls that ran alone, back to back
    comments,     \* the comments table
    comment_seq,  \* its AUTOINCREMENT counter: the largest id ever given
    threads,      \* the threads table
    thread_seq,
    replies,      \* the replies table
    reply_seq,
    now,          \* the store's clock, datetime('now'), in seconds
    cache,        \* CACHE: the metrics slot, None or Some of {stats, fetched_at}
    lock,         \* CACHE's RwLock: the workers holding it to read, to write
    jobs,         \* jobs[p]: the get_github_stats request worker p is running
    instant,      \* the monotonic clock, std::time::Instant, in seconds
    fetches,      \* how many fetch_stats calls have begun
    button,       \* a VoteButton in a page: its count and user_vote signals
    requests      \* the requests the button has sent, in the order it sent them

ledgerVars == <<votes, calls>>
obsVars == <<obs, hist>>
commentVars == <<comments, comment_seq>>
forumVars == <<threads, thread_seq, replies, reply_seq>>
statsVars == <<cache, lock, jobs, instant, fetches>>
uiVars == <<button, requests>>
vars == <<votes, calls, resp, obs, hist, comments, comment_seq,
          threads, thread_seq, replies, reply_seq, now,
          cache, lock, jobs, instant, fetches, button, requests>>

\* ------------------------------------------------------------------ auth.rs
\* extract_user_id: the header must be "Bearer <token>" and the token must
\* decode under the secret with an unexpired exp; the result is claims.sub.
extract_user_id(h) ==
    IF h.kind = "valid"
    THEN [ok |-> TRUE, user_id |-> h.sub, status |-> 200]
    ELSE [ok |-> FALSE, user_id |-> 0, status |-> 401]

\* ------------------------------------------------------------------ votes table
VoteRow(u, tt, tid, v) ==
    [user_id |-> u, target_type |-> tt, target_id |-> tid, value |-> v]

SameKey(r, u, tt, tid) ==
    r.user_id = u /\ r.target_type = tt /\ r.target_id = tid

RECURSIVE SumValues(_, _)
SumValues(S, tbl) ==
    IF S = {} THEN 0
    ELSE LET r == CHOOSE x \in S : TRUE
         IN r.value * tbl[r] + SumValues(S \ {r}, tbl)

RECURSIVE SumCopies(_, _)
SumCopies(S, tbl) ==
    IF S = {} THEN 0
    ELSE LET r == CHOOSE x \in S : TRUE
         IN tbl[r] + SumCopies(S \ {r}, tbl)

\* SELECT COALESCE(SUM(value), 0) FROM votes WHERE target_type = ?1 AND target_id = ?2
VoteSumIgnoringType(tbl, tt, tid) ==
    SumValues({r \in BagToSet(tbl) : r.target_id = tid}, tbl)

VoteSum(tbl, tt, tid) ==
    SumValues({r \in BagToSet(tbl) : r.target_type = tt /\ r.target_id = tid}, tbl)

\* SELECT value FROM votes WHERE user_id = ?1 AND target_type = ?2 AND target_id = ?3
\* through query_row(..).ok(): the first row's value, or None when there is none.
SelectVote(tbl, u, tt, tid) ==
    LET m == {r \in BagToSet(tbl) : SameKey(r, u, tt, tid)}
    IN IF m = {} THEN None ELSE Some((CHOOSE r \in m : TRUE).value)

\* DELETE FROM votes WHERE user_id = ?1 AND target_type = ?2 AND target_id = ?3
DeleteVoteNothing(tbl, u, tt, tid) == tbl

DeleteVoteAnyUser(tbl, u, tt, tid) ==
    LET keep == {r \in BagToSet(tbl) : ~(r.target_type = tt /\ r.target_id = tid)}
    IN [r \in keep |-> tbl[r]]

DeleteVote(tbl, u, tt, tid) ==
    LET keep == {r \in BagToSet(tbl) : ~SameKey(r, u, tt, tid)}
    IN [r \in keep |-> tbl[r]]

\* UPDATE votes SET value = ?4 WHERE user_id = ?1 AND target_type = ?2 AND target_id = ?3
UpdateVoteKeepingOld(tbl, u, tt, tid, v) ==
    tbl (+) SetToBag({VoteRow(u, tt, tid, v)})

UpdateVote(tbl, u, tt, tid, v) ==
    LET m == {r \in BagToSet(tbl) : SameKey(r, u, tt, tid)}
        keep == BagToSet(tbl) \ m
        kept == [r \in keep |-> tbl[r]]
    IN IF m = {} THEN tbl
       ELSE kept (+) [r \in {VoteRow(u, tt, tid, v)} |-> SumCopies(m, tbl)]

\* INSERT INTO votes (user_id, target_type, target_id, value) VALUES (..):
\* UNIQUE(user_id, target_type, target_id) makes the statement fail when the
\* key is already there.
InsertVoteUnchecked(tbl, u, tt, tid, v) ==
    [ok |-> TRUE, tbl |-> tbl (+) SetToBag({VoteRow(u, tt, tid, v)})]

InsertVote(tbl, u, tt, tid, v) ==
    IF \E r \in BagToSet(tbl) : SameKey(r, u, tt, tid)
    THEN [ok |-> FALSE, tbl |-> tbl]
    ELSE [ok |-> TRUE, tbl |-> tbl (+) SetToBag({VoteRow(u, tt, tid, v)})]

\* ------------------------------------------------------------------ state
NoResp == [op |-> "none"]

IdleCall ==
    [pc |-> "idle", user_id |-> 0, target_type |-> "", target_id |-> 0,
     value |-> 0, existing |-> None, user_vote |-> None]

IdleObs ==
    [mate |-> 0, before |-> EmptyBag, done |-> FALSE, user_id |-> 0,
     target_type |-> "", target_id |-> 0, value |-> 0, status |-> 0,
     vote_count |-> 0, user_vote |-> None]

InFlight == {p \in Procs : calls[p].pc # "idle"}

IdleJob == [pc |-> "idle", repo |-> "", fetch |-> 0, commits |-> 0, crate_count |-> 0]

Unlocked == [readers |-> {}, writer |-> {}]

\* No button is in the page yet.
Unmounted == [mounted |-> FALSE, count |-> 0, user_vote |-> None]

Init ==
    /\ votes = EmptyBag
    /\ calls = [p \in Procs |-> IdleCall]
    /\ resp = NoResp
    /\ obs = [p \in Procs |-> IdleObs]
    /\ hist = <<>>
    /\ comments = {}
    /\ comment_seq = 0
    /\ threads = {}
    /\ thread_seq = 0
    /\ replies = {}
    /\ reply_seq = 0
    /\ now = 0
    /\ cache = None
    /\ lock = Unlocked
    /\ jobs = [p \in Procs |-> IdleJob]
    /\ instant = 0
    /\ fetches = 0
    /\ button = Unmounted
    /\ requests = <<>>

\* ------------------------------------------------------------------ votes.rs
VoteResponse(user_id, payload, status, vote_count, user_vote) ==
    [op |-> "cast_vote", user_id |-> user_id, target_type |-> payload.target_type,
     target_id |-> payload.target_id, value |-> payload.value, status |-> status,
     vote_count |-> vote_count, user_vote |-> user_vote]

\* if payload.value != 1 && payload.value != -1 { return Err(BAD_REQUEST) }
ValidValueRange(v) == v >= -1 /\ v <= 1

ValidValue(v) == ~(v # 1 /\ v # -1)

\* cast_vote, up to and including its first statement: authenticate, check
\* the value, read the caller's existing vote.
CastVoteSelect(p, headers, payload) ==
    LET auth == extract_user_id(headers)
    IN
    /\ calls[p].pc = "idle"
    /\ IF ~auth.ok
       THEN /\ resp' = VoteResponse(0, payload, auth.status, 0, None)
            /\ calls' = calls
       ELSE IF ~ValidValue(payload.value)
       THEN /\ resp' = VoteResponse(auth.user_id, payload, 400, 0, None)
            /\ calls' = calls
       ELSE /\ resp' = NoResp
            /\ calls' = [calls EXCEPT ![p] =
                    [pc |-> "write", user_id |-> auth.user_id,
                     target_type |-> payload.target_type,
                     target_id |-> payload.target_id, value |-> payload.value,
                     existing |-> SelectVote(votes, auth.user_id,
                                      payload.target_type, payload.target_id),
                     user_vote |-> None]]
    /\ votes' = votes
    /\ UNCHANGED <<commentVars, forumVars, now, statsVars>>

\* The match on `existing`: DELETE, UPDATE or INSERT. A failed statement ends
\* the call with 500. `existing` is not read after the match.
CastVoteWrite(p) ==
    LET c == calls[p]
        ins == InsertVote(votes, c.user_id, c.target_type, c.target_id, c.value)
    IN
    /\ c.pc = "write"
    /\ IF c.existing = Some(c.value)
       THEN /\ votes' = DeleteVote(votes, c.user_id, c.target_type, c.target_id)
            /\ calls' = [calls EXCEPT ![p].pc = "count", ![p].existing = None,
                                      ![p].user_vote = None]
            /\ resp' = NoResp
       ELSE IF c.existing # None
       THEN /\ votes' = UpdateVote(votes, c.user_id, c.target_type, c.target_id, c.value)
            /\ calls' = [calls EXCEPT ![p].pc = "count", ![p].existing = None,
                                      ![p].user_vote = Some(c.value)]
            /\ resp' = NoResp
       ELSE IF ins.ok
       THEN /\ votes' = ins.tbl
            /\ calls' = [calls EXCEPT ![p].pc = "count", ![p].existing = None,
                                      ![p].user_vote = Some(c.value)]
            /\ resp' = NoResp
       ELSE /\ votes' = votes
            /\ calls' = [calls EXCEPT ![p] = IdleCall]
            /\ resp' = VoteResponse(c.user_id, c, 500, 0, None)
    /\ UNCHANGED <<commentVars, forumVars, now, statsVars>>

\* The aggregate, read after the write, and the response.
CastVoteCount(p) ==
    LET c == calls[p]
        vote_count == VoteSum(votes, c.target_type, c.target_id)
    IN
    /\ c.pc = "count"
    /\ calls' = [calls EXCEPT ![p] = IdleCall]
    /\ resp' = VoteResponse(c.user_id, c, 200, vote_count, c.user_vote)
    /\ votes' = votes
    /\ UNCHANGED <<commentVars, forumVars, now, statsVars>>

\* get_votes: the credential is optional, extract_user_id(..).ok().
OptionalUserStrict(headers) ==
    LET auth == extract_user_id(headers)
    IN [ok |-> auth.ok \/ headers.kind = "absent",
        user_id |-> IF auth.ok THEN Some(auth.user_id) ELSE None]

OptionalUser(headers) ==
    LET auth == extract_user_id(headers)
    IN [ok |-> TRUE, user_id |-> IF auth.ok THEN Some(auth.user_id) ELSE None]

GetVotes(headers, target_type, target_id) ==
    LET who == OptionalUser(headers)
        vote_count == VoteSum(votes, target_type, target_id)
        user_vote ==
            IF who.user_id = None THEN None
            ELSE SelectVote(votes, CHOOSE u \in who.user_id : TRUE,
                            target_type, target_id)
    IN
    /\ resp' = IF who.ok
               THEN [op |-> "get_votes", headers |-> headers,
                     target_type |-> target_type, target_id |-> target_id,
                     status |-> 200, vote_count |-> vote_count,
                     user_vote |-> user_vote]
               ELSE [op |-> "get_votes", headers |-> headers,
                     target_type |-> target_type, target_id |-> target_id,
                     status |-> 401, vote_count |-> 0, user_vote |-> None]
    /\ UNCHANGED <<ledgerVars, commentVars, forumVars, now, statsVars>>

\* ------------------------------------------------------------------ content
\* ammonia::clean drops a <script> element with everything in it and keeps
\* plain text and white space.
keep_raw(raw) == raw

clean(raw) == SelectSeq(raw, LAMBDA piece : piece # "script")

RECURSIVE trim_start(_)
trim_start(s) ==
    IF s = <<>> \/ Head(s) # "sp" THEN s ELSE trim_start(Tail(s))

RECURSIVE trim_end(_)
trim_end(s) ==
    IF s = <<>> \/ s[Len(s)] # "sp" THEN s ELSE trim_end(SubSeq(s, 1, Len(s) - 1))

trim(s) == trim_end(trim_start(s))

\* ORDER BY created_at ASC: every order of the rows that agrees with it.
OrderAsc(rows) ==
    {s \in [1..Cardinality(rows) -> rows] :
        \A i, j \in 1..Cardinality(rows) :
            i < j => s[i] # s[j] /\ s[i].created_at <= s[j].created_at}

\* A comment as list_comments returns it, with the aggregate of its votes.
CommentItem(c, tbl) ==
    [id |-> c.id, post_slug |-> c.post_slug, body |-> c.body,
     created_at |-> c.created_at, user_id |-> c.user_id,
     vote_count |-> VoteSum(tbl, "comment", c.id)]

SelectComments(cs, tbl, post_slug) ==
    {CommentItem(c, tbl) : c \in {c \in cs : c.post_slug = post_slug}}

ListComments(slug) ==
    /\ \E items \in OrderAsc(SelectComments(comments, votes, slug)) :
            resp' = [op |-> "list_comments", slug |-> slug, status |-> 200,
                     items |-> items]
    /\ UNCHANGED <<ledgerVars, commentVars, forumVars, now, statsVars>>

CommentResponse(user_id, status, comment) ==
    [op |-> "create_comment", user_id |-> user_id, status |-> status,
     comment |-> comment]

\* The id of a new row of a table declared INTEGER PRIMARY KEY AUTOINCREMENT:
\* one more than the largest id the table has ever given. Without
\* AUTOINCREMENT it would be one more than the largest id now in the table.
RowidAfterLargest(rows, seq) ==
    IF rows = {} THEN 1
    ELSE (CHOOSE m \in {r.id : r \in rows} : \A r \in rows : r.id <= m) + 1

Autoincrement(rows, seq) == seq + 1

CreateComment(headers, post_slug, raw) ==
    LET auth == extract_user_id(headers)
        body == clean(raw)
        id == Autoincrement(comments, comment_seq)
        row == [id |-> id, post_slug |-> post_slug, user_id |-> auth.user_id,
                body |-> body, created_at |-> now]
    IN
    /\ IF ~auth.ok
       THEN /\ resp' = CommentResponse(0, auth.status, None)
            /\ UNCHANGED commentVars
       ELSE IF trim(body) = <<>>
       THEN /\ resp' = CommentResponse(auth.user_id, 400, None)
            /\ UNCHANGED commentVars
       ELSE /\ comment_seq < MaxComments
            /\ comments' = comments \cup {row}
            /\ comment_seq' = id
            /\ resp' = CommentResponse(auth.user_id, 200,
                            Some([row EXCEPT !.user_id = auth.user_id] @@
                                 [vote_count |-> 0]))
    /\ UNCHANGED <<ledgerVars, forumVars, now, statsVars>>

\* DELETE FROM comments WHERE id = ?1 AND user_id = ?2
DeleteCommentAnyOwner(cs, id, user_id) == {c \in cs : c.id # id}

DeleteCommentRows(cs, id, user_id) ==
    {c \in cs : ~(c.id = id /\ c.user_id = user_id)}

DeleteResponse(user_id, id, status) ==
    [op |-> "delete_comment", user_id |-> user_id, id |-> id, status |-> status]

DeleteComment(headers, id) ==
    LET auth == extract_user_id(headers)
        kept == DeleteCommentRows(comments, id, auth.user_id)
        affected == Cardinality(comments) - Cardinality(kept)
    IN
    /\ IF ~auth.ok
       THEN /\ resp' = DeleteResponse(0, id, auth.status)
            /\ comments' = comments
       ELSE /\ comments' = kept
            /\ resp' = DeleteResponse(auth.user_id, id,
                                      IF affected = 0 THEN 404 ELSE 204)
    /\ UNCHANGED <<ledgerVars, comment_seq, forumVars, now, statsVars>>

\* SELECT id FROM categories WHERE slug = ?1
CategoryId(slug) ==
    LET m == {id \in DOMAIN Categories : Categories[id] = slug}
    IN IF m = {} THEN None ELSE Some(CHOOSE id \in m : TRUE)

ThreadResponse(user_id, status, thread) ==
    [op |-> "create_thread", user_id |-> user_id, status |-> status,
     thread |-> thread]

CreateThread(headers, category_slug, raw_title, raw_body) ==
    LET auth == extract_user_id(headers)
        title == clean(raw_title)
        body == clean(raw_body)
        cat_id == CategoryId(category_slug)
        id == thread_seq + 1
        row == [id |-> id, category_id |-> CHOOSE c \in cat_id : TRUE,
                user_id |-> auth.user_id, title |-> title, body |-> body,
                created_at |-> now]
    IN
    /\ IF ~auth.ok
       THEN /\ resp' = ThreadResponse(0, auth.status, None)
            /\ UNCHANGED <<threads, thread_seq>>
       ELSE IF trim(title) = <<>> \/ trim(body) = <<>>
       THEN /\ resp' = ThreadResponse(auth.user_id, 400, None)
            /\ UNCHANGED <<threads, thread_seq>>
       ELSE IF cat_id = None
       THEN /\ resp' = ThreadResponse(auth.user_id, 404, None)
            /\ UNCHANGED <<threads, thread_seq>>
       ELSE /\ thread_seq < MaxThreads
            /\ threads' = threads \cup {row}
            /\ thread_seq' = id
            /\ resp' = ThreadResponse(auth.user_id, 200,
                            Some(row @@ [reply_count |-> 0]))
    /\ UNCHANGED <<ledgerVars, commentVars, replies, reply_seq, now, statsVars>>

\* SELECT id FROM threads WHERE id = ?1
SelectThreadIdAny(ts, id) == Some(id)

SelectThreadId(ts, id) ==
    IF \E t \in ts : t.id = id THEN Some(id) ELSE None

ReplyResponse(user_id, status, reply) ==
    [op |-> "create_reply", user_id |-> user_id, status |-> status,
     reply |-> reply]

CreateReply(headers, thread_id, raw) ==
    LET auth == extract_user_id(headers)
        body == clean(raw)
        id == reply_seq + 1
        row == [id |-> id, thread_id |-> thread_id, user_id |-> auth.user_id,
                body |-> body, created_at |-> now]
    IN
    /\ IF ~auth.ok
       THEN /\ resp' = ReplyResponse(0, auth.status, None)
            /\ UNCHANGED <<replies, reply_seq>>
       ELSE IF trim(body) = <<>>
       THEN /\ resp' = ReplyResponse(auth.user_id, 400, None)
            /\ UNCHANGED <<replies, reply_seq>>
       ELSE IF SelectThreadId(threads, thread_id) = None
       THEN /\ resp' = ReplyResponse(auth.user_id, 404, None)
            /\ UNCHANGED <<replies, reply_seq>>
       ELSE /\ reply_seq < MaxReplies
            /\ replies' = replies \cup {row}
            /\ reply_seq' = id
            /\ resp' = ReplyResponse(auth.user_id, 200,
                            Some(row @@ [vote_count |-> 0]))
    /\ UNCHANGED <<ledgerVars, commentVars, threads, thread_seq, now, statsVars>>

\* A reply as get_thread returns it, with the aggregate of its votes.
ReplyItem(r, tbl) ==
    [id |-> r.id, thread_id |-> r.thread_id, body |-> r.body,
     created_at |-> r.created_at, user_id |-> r.user_id,
     vote_count |-> VoteSum(tbl, "reply", r.id)]

SelectReplies(rs, tbl, thread_id) ==
    {ReplyItem(r, tbl) : r \in {r \in rs : r.thread_id = thread_id}}

\* get_thread: the thread with its reply count, then its replies.
GetThread(id) ==
    LET found == {t \in threads : t.id = id}
        t == CHOOSE t \in found : TRUE
        reply_count == Cardinality({r \in replies : r.thread_id = id})
    IN
    /\ IF found = {}
       THEN resp' = [op |-> "get_thread", id |-> id, status |-> 404,
                     thread |-> None, replies |-> <<>>]
       ELSE \E items \in OrderAsc(SelectReplies(replies, votes, id)) :
                resp' = [op |-> "get_thread", id |-> id, status |-> 200,
                         thread |-> Some(t @@ [reply_count |-> reply_count]),
                         replies |-> items]
    /\ UNCHANGED <<ledgerVars, commentVars, forumVars, now, statsVars>>

\* ------------------------------------------------------------------ i64
\* A 64-bit signed integer: four 16-bit limbs, the least significant first,
\* in two's complement.
Limb == 2^16

i64(n) ==
    IF n >= 0
    THEN <<n % Limb, (n \div Limb) % Limb, 0, 0>>
    ELSE <<Limb - 1 - ((-n - 1) % Limb), Limb - 1 - (((-n - 1) \div Limb) % Limb),
           Limb - 1, Limb - 1>>

I64Min == <<0, 0, 0, 2^15>>
I64Max == <<Limb - 1, Limb - 1, Limb - 1, 2^15 - 1>>

is_negative(x) == x[4] >= 2^15

\* a < b
i64_lt(a, b) ==
    IF is_negative(a) # is_negative(b) THEN is_negative(a)
    ELSE \E i \in 1..4 : a[i] < b[i] /\ \A j \in (i + 1)..4 : a[j] = b[j]

i64_max(a, b) == IF i64_lt(a, b) THEN b ELSE a

RECURSIVE sub_limbs(_, _)
sub_limbs(x, borrow) ==
    IF x = <<>> THEN <<>>
    ELSE IF Head(x) - borrow < 0
         THEN <<Head(x) - borrow + Limb>> \o sub_limbs(Tail(x), 1)
         ELSE <<Head(x) - borrow>> \o sub_limbs(Tail(x), 0)

\* x - k for 0 <= k < 2^16: the wrapped difference, and whether it overflowed.
i64_sub(x, k) ==
    LET d == sub_limbs(x, k)
    IN [wrapped |-> d, overflow |-> is_negative(x) /\ ~is_negative(d)]

RECURSIVE mul_limbs(_, _, _)
mul_limbs(x, k, carry) ==
    IF x = <<>> THEN <<carry>>
    ELSE <<(Head(x) * k + carry) % Limb>>
            \o mul_limbs(Tail(x), k, (Head(x) * k + carry) \div Limb)

\* x * k for x >= 0 and 0 < k < 2^15: the product's low 64 bits, and whether
\* the product is outside the i64 range.
i64_mul(x, k) ==
    LET m == mul_limbs(x, k, 0)
    IN [wrapped |-> SubSeq(m, 1, 4), overflow |-> m[5] > 0 \/ m[4] >= 2^15]

\* ------------------------------------------------------------------ list_threads
per_page == 20

\* params.page.unwrap_or(1).max(1)
ClampPageNot(page) == IF page = None THEN i64(1) ELSE CHOOSE x \in page : TRUE

ClampPage(page) ==
    i64_max(IF page = None THEN i64(1) ELSE CHOOSE x \in page : TRUE, i64(1))

\* ORDER BY created_at DESC says nothing of rows created in the same second:
\* the engine takes them by id, upwards or downwards.
TieRules == {"up", "down"}

Precedes(r, q, tie) ==
    \/ r.created_at > q.created_at
    \/ /\ r.created_at = q.created_at
       /\ IF tie = "up" THEN r.id <= q.id ELSE r.id >= q.id

RECURSIVE OrderDesc(_, _)
OrderDesc(rows, tie) ==
    IF rows = {} THEN <<>>
    ELSE LET first == CHOOSE r \in rows : \A q \in rows : Precedes(r, q, tie)
         IN <<first>> \o OrderDesc(rows \ {first}, tie)

\* LIMIT limit OFFSET offset; a negative OFFSET counts as 0.
Window(rows, limit, offset) ==
    LET skip == IF is_negative(offset) THEN 0
                ELSE IF offset[4] = 0 /\ offset[3] = 0 /\ offset[2] < 2^14
                     THEN offset[1] + Limb * offset[2]
                     ELSE Len(rows)
    IN IF skip >= Len(rows) THEN <<>>
       ELSE SubSeq(rows, skip + 1,
                   IF skip + limit < Len(rows) THEN skip + limit ELSE Len(rows))

ThreadItem(t, rs) ==
    [id |-> t.id, category_id |-> t.category_id, title |-> t.title,
     body |-> t.body, created_at |-> t.created_at, user_id |-> t.user_id,
     reply_count |-> Cardinality({r \in rs : r.thread_id = t.id})]

\* The request was dropped without a response: the handler panicked.
Aborted == [status |-> 0, items |-> <<>>, total |-> 0, page |-> i64(0),
            per_page |-> 0]

\* Every response list_threads can give. (page - 1) * per_page is computed
\* before any statement: on overflow a build with overflow checks panics, one
\* without them goes on with the wrapped product.
list_threads(ts, rs, category, page) ==
    LET clamped == ClampPage(page)
        less == i64_sub(clamped, 1)
        offset == i64_mul(less.wrapped, per_page)
        cat_id == CategoryId(category)
        rows == {ThreadItem(t, rs) : t \in {t \in ts : {t.category_id} = cat_id}}
        answers ==
            IF cat_id = None
            THEN {[status |-> 404, items |-> <<>>, total |-> 0, page |-> i64(0),
                   per_page |-> 0]}
            ELSE {[status |-> 200,
                   items |-> Window(OrderDesc(rows, tie), per_page, offset.wrapped),
                   total |-> Cardinality(rows), page |-> clamped,
                   per_page |-> per_page] : tie \in TieRules}
    IN IF less.overflow \/ offset.overflow THEN answers \cup {Aborted} ELSE answers

ListThreads(category, page) ==
    /\ \E answer \in list_threads(threads, replies, category, page) :
            resp' = answer @@ [op |-> "list_threads", category |-> category,
                               asked |-> page]
    /\ UNCHANGED <<ledgerVars, commentVars, forumVars, now, statsVars>>

\* A second passes on the store's clock.
Tick ==
    /\ now < MaxTime
    /\ now' = now + 1
    /\ resp' = NoResp
    /\ UNCHANGED <<ledgerVars, commentVars, forumVars, statsVars>>

\* ------------------------------------------------------------------ github_stats.rs
CACHE_TTL == 3600

\* The moments the clock is looked at.
Instants == {0, 1, 3600, 3601}

Repos == {"girivs82/skalp"}

\* What an upstream answers: "ok", a response as documented; "bad", a
\* response that is not (an error status, a body of another shape); "down",
\* no response, the request fails.
Outcomes == {"ok", "bad", "down"}

\* What the upstream reports when it answers as documented.
LastPage == 7
CrateDirs == 3

StatsResponse(repo, status, stats, fetch) ==
    [op |-> "get_github_stats", repo |-> repo, status |-> status,
     stats |-> stats, fetch |-> fetch]

\* GitHubStats, as fetch_stats builds it from what its four requests gave.
GitHubStats(job) ==
    [repo |-> job.repo, fetch |-> job.fetch, commits |-> job.commits,
     crate_count |-> job.crate_count]

\* cached.fetched_at.elapsed() < CACHE_TTL
FreshInclusive(cached, t) == t - cached.fetched_at <= CACHE_TTL

Fresh(cached, t) == t - cached.fetched_at < CACHE_TTL

\* The read guard is dropped where its block ends, before the fetch.
KeepRead(l, p) == l

ReleaseRead(l, p) == [l EXCEPT !.readers = @ \ {p}]

\* CACHE.read().await, as the request comes in.
AcquireRead(p, repo) ==
    /\ jobs[p].pc = "idle"
    /\ lock.writer = {}
    /\ fetches + Cardinality({q \in Procs : jobs[q].pc = "reading"}) < MaxFetches
    /\ lock' = [lock EXCEPT !.readers = @ \cup {p}]
    /\ jobs' = [jobs EXCEPT ![p] = [IdleJob EXCEPT !.pc = "reading", !.repo = repo]]
    /\ resp' = NoResp
    /\ UNCHANGED <<cache, instant, fetches>>
    /\ UNCHANGED <<ledgerVars, commentVars, forumVars, now>>

\* The cache check under the read guard: answer from the slot, or go and fetch.
StatsCheck(p) ==
    /\ jobs[p].pc = "reading"
    /\ lock' = ReleaseRead(lock, p)
    /\ IF cache # None /\ Fresh(CHOOSE c \in cache : TRUE, instant)
       THEN /\ resp' = StatsResponse(jobs[p].repo, 200,
                            Some((CHOOSE c \in cache : TRUE).stats), 0)
            /\ jobs' = [jobs EXCEPT ![p] = IdleJob]
            /\ fetches' = fetches
       ELSE /\ resp' = NoResp
            /\ jobs' = [jobs EXCEPT ![p].pc = "repo", ![p].fetch = fetches + 1]
            /\ fetches' = fetches + 1
    /\ UNCHANGED <<cache, instant>>
    /\ UNCHANGED <<ledgerVars, commentVars, forumVars, now>>

\* fetch_stats failed: 502, and the request is over.
BadGateway(p) ==
    /\ resp' = StatsResponse(jobs[p].repo, 502, None, jobs[p].fetch)
    /\ jobs' = [jobs EXCEPT ![p] = IdleJob]

\* The repository metadata arrives, or the request for it fails.
FetchRepo(p, outcome) ==
    /\ jobs[p].pc = "repo"
    /\ IF outcome = "ok"
       THEN resp' = NoResp /\ jobs' = [jobs EXCEPT ![p].pc = "languages"]
       ELSE BadGateway(p)
    /\ UNCHANGED <<cache, lock, instant, fetches>>
    /\ UNCHANGED <<ledgerVars, commentVars, forumVars, now>>

\* The language byte counts.
FetchLanguages(p, outcome) ==
    /\ jobs[p].pc = "languages"
    /\ IF outcome = "ok"
       THEN resp' = NoResp /\ jobs' = [jobs EXCEPT ![p].pc = "commits"]
       ELSE BadGateway(p)
    /\ UNCHANGED <<cache, lock, instant, fetches>>
    /\ UNCHANGED <<ledgerVars, commentVars, forumVars, now>>

\* The commit listing: the count is read off the Link header, 0 without one.
FetchCommits(p, outcome) ==
    /\ jobs[p].pc = "commits"
    /\ IF outcome = "down"
       THEN BadGateway(p)
       ELSE /\ resp' = NoResp
            /\ jobs' = [jobs EXCEPT ![p].pc = "crates",
                            ![p].commits = IF outcome = "ok" THEN LastPage ELSE 0]
    /\ UNCHANGED <<cache, lock, instant, fetches>>
    /\ UNCHANGED <<ledgerVars, commentVars, forumVars, now>>

\* The directory listing: its directories + 2; a body of another shape
\* counts as no entries; 0 when the request fails.
FetchCrates(p, outcome) ==
    /\ jobs[p].pc = "crates"
    /\ resp' = NoResp
    /\ jobs' = [jobs EXCEPT ![p].pc = "store",
                    ![p].crate_count = IF outcome = "ok" THEN CrateDirs + 2
                                       ELSE IF outcome = "bad" THEN 0 + 2
                                       ELSE 0]
    /\ UNCHANGED <<cache, lock, instant, fetches>>
    /\ UNCHANGED <<ledgerVars, commentVars, forumVars, now>>

\* CACHE.write().await
AcquireWrite(p) ==
    /\ jobs[p].pc = "store"
    /\ lock = Unlocked
    /\ lock' = [lock EXCEPT !.writer = {p}]
    /\ jobs' = [jobs EXCEPT ![p].pc = "writing"]
    /\ resp' = NoResp
    /\ UNCHANGED <<cache, instant, fetches>>
    /\ UNCHANGED <<ledgerVars, commentVars, forumVars, now>>

\* The slot is replaced under the write guard, and the fetched stats returned.
StatsStore(p) ==
    /\ jobs[p].pc = "writing"
    /\ cache' = Some([stats |-> GitHubStats(jobs[p]), fetched_at |-> instant])
    /\ lock' = [lock EXCEPT !.writer = @ \ {p}]
    /\ resp' = StatsResponse(jobs[p].repo, 200, Some(GitHubStats(jobs[p])),
                             jobs[p].fetch)
    /\ jobs' = [jobs EXCEPT ![p] = IdleJob]
    /\ UNCHANGED <<instant, fetches>>
    /\ UNCHANGED <<ledgerVars, commentVars, forumVars, now>>

\* Time passes on the monotonic clock.
Advance ==
    /\ \E t \in Instants : t > instant /\ instant' = t
    /\ resp' = NoResp
    /\ UNCHANGED <<cache, lock, jobs, fetches>>
    /\ UNCHANGED <<ledgerVars, commentVars, forumVars, now>>

\* ------------------------------------------------------------------ requests
\* GET /api/auth/me. Every token names a row of users: github_callback
\* writes the row before it signs the token, and nothing deletes users.
SelectUser(id) == IF id \in Users THEN Some([id |-> id]) ELSE None

MeResponse(user_id, status, user) ==
    [op |-> "me", user_id |-> user_id, status |-> status, user |-> user]

Me(headers) ==
    LET auth == extract_user_id(headers)
        user == SelectUser(auth.user_id)
    IN
    /\ resp' = IF ~auth.ok THEN MeResponse(0, auth.status, None)
               ELSE IF user = None THEN MeResponse(auth.user_id, 404, None)
               ELSE MeResponse(auth.user_id, 200, user)
    /\ UNCHANGED <<ledgerVars, commentVars, forumVars, now, statsVars>>

\* A handler's arguments are extracted from the request in the order they
\* are declared, before its body runs. State and HeaderMap never fail.
\* Json<T> fails when the body is not a JSON document of type T: 415 without
\* a JSON content type, 400 for a syntax error, 422 for another shape.
\* Path<i64> fails with 400 when the segment is not an integer. A failed
\* extraction is the response: the body of the handler, extract_user_id
\* included, does not run.
JsonOps == {"cast_vote", "create_comment", "create_thread", "create_reply"}
PathOps == {"delete_comment", "create_reply"}
JsonRejections == {400, 415, 422}
PathRejections == {400}

Rejection(op, status) ==
    [op |-> op, user_id |-> 0, status |-> status, rejected |-> TRUE]

\* The request's body does not deserialize; its header is whatever it is.
RejectJson(op, headers, status) ==
    /\ op \in JsonOps
    /\ headers \in Headers
    /\ status \in JsonRejections
    /\ resp' = Rejection(op, status)
    /\ UNCHANGED <<ledgerVars, commentVars, forumVars, now, statsVars>>

\* The id in the request's path is not an integer.
RejectPath(op, headers, status) ==
    /\ op \in PathOps
    /\ headers \in Headers
    /\ status \in PathRejections
    /\ resp' = Rejection(op, status)
    /\ UNCHANGED <<ledgerVars, commentVars, forumVars, now, statsVars>>

\* ------------------------------------------------------------------ storage failures
\* A statement, or taking a connection from the pool, can fail for reasons
\* the request has no part in: the file stays locked past the busy timeout,
\* the disk is full, the pool is exhausted. One step of a request fails; the
\* handler goes on as its code says.
GetVotesSteps == {"pool", "count", "user_vote"}

\* get_votes: pool.get() is mapped to 500; the aggregate is read with
\* .unwrap_or(0), the caller's vote with .ok().
GetVotesFailing(headers, target_type, target_id, failed) ==
    LET who == OptionalUser(headers)
        vote_count == IF failed = "count" THEN 0
                      ELSE VoteSum(votes, target_type, target_id)
        user_vote ==
            IF who.user_id = None \/ failed = "user_vote" THEN None
            ELSE SelectVote(votes, CHOOSE u \in who.user_id : TRUE,
                            target_type, target_id)
    IN
    /\ failed \in GetVotesSteps
    /\ failed = "user_vote" => who.user_id # None
    /\ resp' = IF failed = "pool"
               THEN [op |-> "get_votes", headers |-> headers,
                     target_type |-> target_type, target_id |-> target_id,
                     status |-> 500, vote_count |-> 0, user_vote |-> None,
                     failed |-> failed]
               ELSE [op |-> "get_votes", headers |-> headers,
                     target_type |-> target_type, target_id |-> target_id,
                     status |-> 200, vote_count |-> vote_count,
                     user_vote |-> user_vote, failed |-> failed]
    /\ UNCHANGED <<ledgerVars, commentVars, forumVars, now, statsVars>>

CastVoteSteps == {"pool", "existing"}

\* cast_vote: pool.get() is mapped to 500; the caller's existing vote is read
\* with .ok(), so a failed read is a vote that is not there.
CastVoteSelectFailing(p, headers, payload, failed) ==
    LET auth == extract_user_id(headers)
    IN
    /\ failed \in CastVoteSteps
    /\ calls[p].pc = "idle"
    /\ auth.ok
    /\ ValidValue(payload.value)
    /\ IF failed = "pool"
       THEN /\ resp' = VoteResponse(auth.user_id, payload, 500, 0, None) @@
                       [failed |-> failed]
            /\ calls' = calls
       ELSE /\ resp' = NoResp
            /\ calls' = [calls EXCEPT ![p] =
                    [pc |-> "write", user_id |-> auth.user_id,
                     target_type |-> payload.target_type,
                     target_id |-> payload.target_id, value |-> payload.value,
                     existing |-> None, user_vote |-> None]]
    /\ votes' = votes
    /\ UNCHANGED <<commentVars, forumVars, now, statsVars>>

\* The DELETE, UPDATE or INSERT fails: map_err(500)?.
CastVoteWriteFailing(p) ==
    LET c == calls[p]
    IN
    /\ c.pc = "write"
    /\ votes' = votes
    /\ calls' = [calls EXCEPT ![p] = IdleCall]
    /\ resp' = VoteResponse(c.user_id, c, 500, 0, None) @@ [failed |-> "write"]
    /\ UNCHANGED <<commentVars, forumVars, now, statsVars>>

\* The aggregate after the write is read with .unwrap_or(0).
CastVoteCountFailing(p) ==
    LET c == calls[p]
    IN
    /\ c.pc = "count"
    /\ calls' = [calls EXCEPT ![p] = IdleCall]
    /\ resp' = VoteResponse(c.user_id, c, 200, 0, c.user_vote) @@
               [failed |-> "count"]
    /\ votes' = votes
    /\ UNCHANGED <<commentVars, forumVars, now, statsVars>>

ListThreadsSteps == {"pool", "category", "total", "prepare", "rows"}

\* The lists a page becomes when the reading of its rows fails at some row:
\* filter_map(|r| r.ok()) keeps the rows read before it.
Shortened(items) == {SubSeq(items, 1, n) : n \in 0..(Len(items) - 1)}

\* list_threads: pool.get() and prepare are mapped to 500, the category
\* lookup to 404; the total is read with .unwrap_or(0); rows that fail are
\* filtered out.
list_threads_failing(ts, rs, category, page, failed) ==
    LET clamped == ClampPage(page)
        less == i64_sub(clamped, 1)
        offset == i64_mul(less.wrapped, per_page)
        cat_id == CategoryId(category)
        rows == {ThreadItem(t, rs) : t \in {t \in ts : {t.category_id} = cat_id}}
        total == IF failed = "total" THEN 0 ELSE Cardinality(rows)
        Error(status) == [status |-> status, items |-> <<>>, total |-> 0,
                          page |-> i64(0), per_page |-> 0]
        Page(items) == [status |-> 200, items |-> items, total |-> total,
                        page |-> clamped, per_page |-> per_page]
        windows == {Window(OrderDesc(rows, tie), per_page, offset.wrapped) :
                        tie \in TieRules}
        answers ==
            IF failed = "pool" THEN {Error(500)}
            ELSE IF failed = "category" \/ cat_id = None THEN {Error(404)}
            ELSE IF failed = "prepare" THEN {Error(500)}
            ELSE IF failed = "rows"
            THEN {Page(items) : items \in UNION {Shortened(w) : w \in windows}}
            ELSE {Page(w) : w \in windows}
    IN IF less.overflow \/ offset.overflow THEN answers \cup {Aborted} ELSE answers

ListThreadsFailing(category, page, failed) ==
    /\ failed \in ListThreadsSteps
    /\ failed \in {"total", "prepare", "rows"} => CategoryId(category) # None
    /\ \E answer \in list_threads_failing(threads, replies, category, page, failed) :
            resp' = answer @@ [op |-> "list_threads", category |-> category,
                               asked |-> page, failed |-> failed]
    /\ UNCHANGED <<ledgerVars, commentVars, forumVars, now, statsVars>>

\* ------------------------------------------------------------------ create_thread, by statement
\* create_thread's statements run on a pooled connection with no transaction
\* around them: other requests' statements can run between its INSERT and
\* the SELECT that builds its response. calls[p] holds the id of the row the
\* worker has inserted, last_insert_rowid().
CreateThreadInsert(p, headers, category_slug, raw_title, raw_body) ==
    LET auth == extract_user_id(headers)
        title == clean(raw_title)
        body == clean(raw_body)
        cat_id == CategoryId(category_slug)
        id == thread_seq + 1
        row == [id |-> id, category_id |-> CHOOSE c \in cat_id : TRUE,
                user_id |-> auth.user_id, title |-> title, body |-> body,
                created_at |-> now]
    IN
    /\ calls[p].pc = "idle"
    /\ IF ~auth.ok
       THEN /\ resp' = ThreadResponse(0, auth.status, None)
            /\ UNCHANGED <<threads, thread_seq, calls>>
       ELSE IF trim(title) = <<>> \/ trim(body) = <<>>
       THEN /\ resp' = ThreadResponse(auth.user_id, 400, None)
            /\ UNCHANGED <<threads, thread_seq, calls>>
       ELSE IF cat_id = None
       THEN /\ resp' = ThreadResponse(auth.user_id, 404, None)
            /\ UNCHANGED <<threads, thread_seq, calls>>
       ELSE /\ thread_seq < MaxThreads
            /\ threads' = threads \cup {row}
            /\ thread_seq' = id
            /\ calls' = [calls EXCEPT ![p] =
                    [IdleCall EXCEPT !.pc = "thread", !.user_id = auth.user_id,
                                     !.target_type = "thread", !.target_id = id]]
            /\ resp' = NoResp
    /\ UNCHANGED <<votes, commentVars, replies, reply_seq, now, statsVars>>

\* SELECT t.*, u.* FROM threads t JOIN users u .. WHERE t.id = ?1, mapped
\* to a Thread with reply_count: 0.
CreateThreadSelect(p) ==
    LET c == calls[p]
        found == {t \in threads : t.id = c.target_id}
    IN
    /\ c.pc = "thread"
    /\ calls' = [calls EXCEPT ![p] = IdleCall]
    /\ resp' = IF found = {} THEN ThreadResponse(c.user_id, 500, None)
               ELSE ThreadResponse(c.user_id, 200,
                        Some((CHOOSE t \in found : TRUE) @@ [reply_count |-> 0]))
    /\ UNCHANGED <<votes, commentVars, forumVars, now, statsVars>>

\* ------------------------------------------------------------------ observation
\* What the properties need to know about calls that are over; no handler
\* reads it. mate = 0: no other call has overlapped this one; mate = q:
\* exactly one has, the call worker q is running or ran; -1: more than one.
\* before: the ledger when the call, or the overlapping pair it is part of,
\* began. An overlapped call's outcome stays in obs until the next call
\* starts; a call that ran alone joins hist.
Keep2(s) == IF Len(s) > 2 THEN SubSeq(s, Len(s) - 1, Len(s)) ELSE s

Overlapped(o, p) == [o EXCEPT !.mate = IF o.mate = 0 THEN p ELSE -1]

MateOf(p) ==
    LET others == InFlight \ {p}
    IN IF others = {} THEN 0
       ELSE IF Cardinality(others) = 1 /\ obs[CHOOSE q \in others : TRUE].mate = 0
            THEN CHOOSE q \in others : TRUE
            ELSE -1

BeforeOf(p) ==
    LET m == MateOf(p)
    IN IF m \in Procs THEN obs[m].before ELSE votes

CallRecord(r, before) ==
    [user_id |-> r.user_id, target_type |-> r.target_type,
     target_id |-> r.target_id, value |-> r.value, status |-> r.status,
     vote_count |-> r.vote_count, user_vote |-> r.user_vote, before |-> before]

\* Conjoined to a step of worker p's call.
Observe(p) ==
    IF calls[p].pc = "idle"
    THEN \* the call starts; every call in flight is overlapped by it
         /\ obs' = [q \in Procs |->
                IF q = p
                THEN IF calls'[p].pc = "idle" THEN IdleObs
                     ELSE [IdleObs EXCEPT !.mate = MateOf(p), !.before = BeforeOf(p)]
                ELSE IF q \in InFlight THEN Overlapped(obs[q], p) ELSE IdleObs]
         /\ hist' = IF calls'[p].pc # "idle" /\ MateOf(p) = 0 THEN hist ELSE <<>>
    ELSE IF calls'[p].pc = "idle"
    THEN \* the call ends with resp'
         IF obs[p].mate = 0
         THEN /\ obs' = [obs EXCEPT ![p] = IdleObs]
              /\ hist' = Keep2(Append(hist, CallRecord(resp', obs[p].before)))
         ELSE /\ obs' = [obs EXCEPT ![p] =
                    [mate |-> obs[p].mate, before |-> obs[p].before, done |-> TRUE,
                     user_id |-> resp'.user_id, target_type |-> resp'.target_type,
                     target_id |-> resp'.target_id, value |-> resp'.value,
                     status |-> resp'.status, vote_count |-> resp'.vote_count,
                     user_vote |-> resp'.user_vote]]
              /\ hist' = <<>>
    ELSE UNCHANGED <<obs, hist>>

\* ------------------------------------------------------------------ specifications
\* The vote ledger under concurrent workers.
Next ==
    \/ \E p \in Procs, h \in Headers, pl \in Payloads(TargetTypes, TargetIds, Values) :
            CastVoteSelect(p, h, pl) /\ UNCHANGED <<obsVars, uiVars>>
    \/ \E p \in Procs : CastVoteWrite(p) /\ UNCHANGED <<obsVars, uiVars>>
    \/ \E p \in Procs : CastVoteCount(p) /\ UNCHANGED <<obsVars, uiVars>>
    \/ \E h \in Headers, tt \in TargetTypes, tid \in TargetIds :
            GetVotes(h, tt, tid) /\ UNCHANGED <<obsVars, uiVars>>

Spec == Init /\ [][Next]_vars

\* The same workers on one target, with the observation of calls kept.
ObsNext ==
    \/ \E p \in Procs, h \in ValidHeaders, pl \in Payloads({"comment"}, {1}, {-1, 1}) :
            CastVoteSelect(p, h, pl) /\ Observe(p) /\ UNCHANGED uiVars
    \/ \E p \in Procs : CastVoteWrite(p) /\ Observe(p) /\ UNCHANGED uiVars
    \/ \E p \in Procs : CastVoteCount(p) /\ Observe(p) /\ UNCHANGED uiVars

SpecObs == Init /\ [][ObsNext]_vars

\* Comments: written, listed and deleted as time passes.
CommentsNext ==
    \/ \E h \in Headers, slug \in Slugs, raw \in CommentTexts :
            CreateComment(h, slug, raw) /\ UNCHANGED <<obsVars, uiVars>>
    \/ \E h \in Headers, id \in 1..(MaxComments + 1) :
            DeleteComment(h, id) /\ UNCHANGED <<obsVars, uiVars>>
    \/ \E slug \in Slugs : ListComments(slug) /\ UNCHANGED <<obsVars, uiVars>>
    \/ Tick /\ UNCHANGED <<obsVars, uiVars>>

SpecComments == Init /\ [][CommentsNext]_vars

\* Votes on comments and replies, and on ids nothing has: one worker votes
\* while content is written and read.
Voter == CHOOSE p \in Procs : TRUE
Author == {h \in ValidHeaders : h.sub = Voter}
VotedTypes == {"comment", "reply"}
Readers == {h \in Headers : h.kind \in {"absent", "valid"}}

ContentNext ==
    \/ \E h \in ValidHeaders, pl \in Payloads(VotedTypes, {1}, {-1, 1}) :
            CastVoteSelect(Voter, h, pl) /\ UNCHANGED <<obsVars, uiVars>>
    \/ CastVoteWrite(Voter) /\ UNCHANGED <<obsVars, uiVars>>
    \/ CastVoteCount(Voter) /\ UNCHANGED <<obsVars, uiVars>>
    \/ \E h \in Readers, tt \in VotedTypes :
            GetVotes(h, tt, 1) /\ UNCHANGED <<obsVars, uiVars>>
    \/ \E h \in Author, slug \in {"post-a"}, raw \in RawTexts :
            CreateComment(h, slug, raw) /\ UNCHANGED <<obsVars, uiVars>>
    \/ \E slug \in {"post-a"} : ListComments(slug) /\ UNCHANGED <<obsVars, uiVars>>
    \/ \E h \in Author, slug \in CategorySlugs, raw \in RawTexts :
            CreateThread(h, slug, raw, raw) /\ thread_seq' <= FewThreads
            /\ UNCHANGED <<obsVars, uiVars>>
    \/ \E h \in Author, id \in 1..(FewThreads + 1), raw \in RawTexts :
            CreateReply(h, id, raw) /\ UNCHANGED <<obsVars, uiVars>>
    \/ \E id \in 1..(FewThreads + 1) : GetThread(id) /\ UNCHANGED <<obsVars, uiVars>>

SpecContent == Init /\ [][ContentNext]_vars

\* The forum's thread list: threads are written as time passes and listed
\* by page. The first threads go to either category, the later ones to one.
Pages ==
    {None} \cup {Some(i64(n)) : n \in {-1, 0, 1, 2}}
        \cup {Some(I64Min), Some(<<1, 0, 0, 2^14>>),
              Some(<<26216, 26214, 26214, 1638>>)}

ThreadsNext ==
    \/ \E h \in Author, raw \in {<<"Hello">>},
          slug \in (IF thread_seq < MixedThreads THEN {"general", "projects"}
                    ELSE {"general"}) :
            CreateThread(h, slug, raw, raw) /\ UNCHANGED <<obsVars, uiVars>>
    \/ \E slug \in ListedSlugs, page \in Pages :
            ListThreads(slug, page) /\ UNCHANGED <<obsVars, uiVars>>
    \/ Tick /\ UNCHANGED <<obsVars, uiVars>>

SpecThreads == Init /\ [][ThreadsNext]_vars

\* The metrics cache under concurrent requests, with an upstream that
\* answers well, badly, or not at all.
StatsNext ==
    \/ \E p \in Procs, repo \in Repos : AcquireRead(p, repo) /\ UNCHANGED <<obsVars, uiVars>>
    \/ \E p \in Procs : StatsCheck(p) /\ UNCHANGED <<obsVars, uiVars>>
    \/ \E p \in Procs, o \in Outcomes : FetchRepo(p, o) /\ UNCHANGED <<obsVars, uiVars>>
    \/ \E p \in Procs, o \in Outcomes : FetchLanguages(p, o) /\ UNCHANGED <<obsVars, uiVars>>
    \/ \E p \in Procs, o \in Outcomes : FetchCommits(p, o) /\ UNCHANGED <<obsVars, uiVars>>
    \/ \E p \in Procs, o \in Outcomes : FetchCrates(p, o) /\ UNCHANGED <<obsVars, uiVars>>
    \/ \E p \in Procs : AcquireWrite(p) /\ UNCHANGED <<obsVars, uiVars>>
    \/ \E p \in Procs : StatsStore(p) /\ UNCHANGED <<obsVars, uiVars>>
    \/ Advance /\ UNCHANGED <<obsVars, uiVars>>

SpecStats == Init /\ [][StatsNext]_vars

\* The same, where a handler that can take a step of its own takes it. Nothing
\* is asked of the upstream: it may never answer.
StatsFair ==
    \A p \in Procs :
        /\ WF_vars(StatsCheck(p) /\ UNCHANGED <<obsVars, uiVars>>)
        /\ SF_vars(AcquireWrite(p) /\ UNCHANGED <<obsVars, uiVars>>)
        /\ WF_vars(StatsStore(p) /\ UNCHANGED <<obsVars, uiVars>>)

SpecStatsLive == Init /\ [][StatsNext]_vars /\ StatsFair

\* The operations that need a credential, called with every kind of
\* credential and with bodies and paths that do or do not extract.
Callers == BadCredentials \cup Author

AuthNext ==
    \/ \E h \in Callers, pl \in Payloads(TargetTypes, TargetIds, {1, 2}) :
            CastVoteSelect(Voter, h, pl) /\ UNCHANGED <<obsVars, uiVars>>
    \/ CastVoteWrite(Voter) /\ UNCHANGED <<obsVars, uiVars>>
    \/ CastVoteCount(Voter) /\ UNCHANGED <<obsVars, uiVars>>
    \/ \E h \in Callers, raw \in RawTexts :
            CreateComment(h, "post-a", raw) /\ comment_seq' <= FewThreads
            /\ UNCHANGED <<obsVars, uiVars>>
    \/ \E h \in Callers, id \in 1..FewThreads :
            DeleteComment(h, id) /\ UNCHANGED <<obsVars, uiVars>>
    \/ \E h \in Callers, slug \in CategorySlugs, raw \in RawTexts :
            CreateThread(h, slug, raw, raw) /\ thread_seq' <= FewThreads
            /\ UNCHANGED <<obsVars, uiVars>>
    \/ \E h \in Callers, id \in 1..(FewThreads + 1), raw \in RawTexts :
            CreateReply(h, id, raw) /\ UNCHANGED <<obsVars, uiVars>>
    \/ \E h \in Callers : Me(h) /\ UNCHANGED <<obsVars, uiVars>>
    \/ \E op \in JsonOps, h \in Callers, st \in JsonRejections :
            RejectJson(op, h, st) /\ UNCHANGED <<obsVars, uiVars>>
    \/ \E op \in PathOps, h \in Callers, st \in PathRejections :
            RejectPath(op, h, st) /\ UNCHANGED <<obsVars, uiVars>>

SpecAuth == Init /\ [][AuthNext]_vars

\* Votes and the thread list over a store whose statements can fail.
FaultPages == {None, Some(i64(2))}

FaultsNext ==
    \/ \E h \in ValidHeaders, pl \in Payloads(TargetTypes, TargetIds, {-1, 1}) :
            CastVoteSelect(Voter, h, pl) /\ UNCHANGED <<obsVars, uiVars>>
    \/ CastVoteWrite(Voter) /\ UNCHANGED <<obsVars, uiVars>>
    \/ CastVoteCount(Voter) /\ UNCHANGED <<obsVars, uiVars>>
    \/ \E h \in Readers, tt \in TargetTypes, tid \in TargetIds :
            GetVotes(h, tt, tid) /\ UNCHANGED <<obsVars, uiVars>>
    \/ \E h \in Author, raw \in {<<"Hello">>} :
            CreateThread(h, "general", raw, raw) /\ thread_seq' <= FewThreads + 1
            /\ UNCHANGED <<obsVars, uiVars>>
    \/ \E slug \in CategorySlugs, page \in FaultPages :
            ListThreads(slug, page) /\ UNCHANGED <<obsVars, uiVars>>
    \/ \E h \in ValidHeaders, pl \in Payloads(TargetTypes, TargetIds, {-1, 1}),
          failed \in CastVoteSteps :
            CastVoteSelectFailing(Voter, h, pl, failed) /\ UNCHANGED <<obsVars, uiVars>>
    \/ CastVoteWriteFailing(Voter) /\ UNCHANGED <<obsVars, uiVars>>
    \/ CastVoteCountFailing(Voter) /\ UNCHANGED <<obsVars, uiVars>>
    \/ \E h \in Readers, tt \in TargetTypes, tid \in TargetIds,
          failed \in GetVotesSteps :
            GetVotesFailing(h, tt, tid, failed) /\ UNCHANGED <<obsVars, uiVars>>
    \/ \E slug \in CategorySlugs, page \in FaultPages, failed \in ListThreadsSteps :
            ListThreadsFailing(slug, page, failed) /\ UNCHANGED <<obsVars, uiVars>>

SpecFaults == Init /\ [][FaultsNext]_vars

\* Threads and replies written by concurrent requests and read back with
\* their reply counts.
CountsNext ==
    \/ \E h \in Author, slug \in {"general", "projects"} :
            CreateThreadInsert(Voter, h, slug, <<"Hello">>, <<"Hello">>)
            /\ thread_seq' <= FewThreads + 1 /\ UNCHANGED <<obsVars, uiVars>>
    \/ CreateThreadSelect(Voter) /\ UNCHANGED <<obsVars, uiVars>>
    \/ \E h \in ValidHeaders, id \in 1..(FewThreads + 2) :
            CreateReply(h, id, <<"Hello">>) /\ UNCHANGED <<obsVars, uiVars>>
    \/ \E id \in 1..(FewThreads + 2) : GetThread(id) /\ UNCHANGED <<obsVars, uiVars>>
    \/ \E slug \in {"general", "projects"}, page \in {None, Some(i64(2))} :
            ListThreads(slug, page) /\ UNCHANGED <<obsVars, uiVars>>
    \/ Tick /\ UNCHANGED <<obsVars, uiVars>>

SpecCounts == Init /\ [][CountsNext]_vars

\* The metrics cache asked for one repository and for another.
AskedRepos == Repos \cup {"girivs82/mikaana"}

ReposNext ==
    \/ \E p \in Procs, repo \in AskedRepos : AcquireRead(p, repo) /\ UNCHANGED <<obsVars, uiVars>>
    \/ \E p \in Procs : StatsCheck(p) /\ UNCHANGED <<obsVars, uiVars>>
    \/ \E p \in Procs, o \in Outcomes : FetchRepo(p, o) /\ UNCHANGED <<obsVars, uiVars>>
    \/ \E p \in Procs, o \in Outcomes : FetchLanguages(p, o) /\ UNCHANGED <<obsVars, uiVars>>
    \/ \E p \in Procs, o \in Outcomes : FetchCommits(p, o) /\ UNCHANGED <<obsVars, uiVars>>
    \/ \E p \in Procs, o \in Outcomes : FetchCrates(p, o) /\ UNCHANGED <<obsVars, uiVars>>
    \/ \E p \in Procs : AcquireWrite(p) /\ UNCHANGED <<obsVars, uiVars>>
    \/ \E p \in Procs : StatsStore(p) /\ UNCHANGED <<obsVars, uiVars>>
    \/ Advance /\ UNCHANGED <<obsVars, uiVars>>

SpecRepos == Init /\ [][ReposNext]_vars

\* ------------------------------------------------------------------ interactive/votes.rs
\* A VoteButton on one target, in the page of a user who is logged in: the
\* token in local storage is the user's, and api::get and api::post send it.
MaxRequests == 3

Clicker == CHOOSE h \in ValidHeaders : h.sub = Voter
ButtonType == CHOOSE tt \in TargetTypes : TRUE
ButtonId == CHOOSE tid \in TargetIds : TRUE
Clicks == {-1, 1}

\* The optimistic change of the count.
DeltaNoSwitch(prev_vote, value) == IF prev_vote = Some(value) THEN -value ELSE value

Delta(prev_vote, value) ==
    IF prev_vote = Some(value) THEN -value
    ELSE IF prev_vote # None THEN value - (CHOOSE v \in prev_vote : TRUE)
    ELSE value

NewUserVote(prev_vote, value) ==
    IF prev_vote = Some(value) THEN None ELSE Some(value)

\* A request of the button. prev_count and prev_vote are what the click
\* handler captured for the rollback. state: sent, serving (a worker runs
\* it), answered (the response is on its way), failed (the request or its
\* response was lost), done (its future has run to the end).
\* Observation, read by no handler: reached (the server has begun to
\* handle it), synced (when it was sent the button showed the ledger and
\* nothing else was under way), shown_count and shown_vote (what the button
\* showed once the click handler had run).
Request(kind, value, synced) ==
    [kind |-> kind, value |-> value, prev_count |-> button.count,
     prev_vote |-> button.user_vote, state |-> "sent", worker |-> 0,
     status |-> 0, vote_count |-> 0, user_vote |-> None,
     reached |-> FALSE, synced |-> synced,
     shown_count |-> button.count + Delta(button.user_vote, value),
     shown_vote |-> NewUserVote(button.user_vote, value)]

\* The response r of the server, kept with the request it answers.
Answered(rs, i, r) ==
    [rs EXCEPT ![i].state = "answered", ![i].status = r.status,
                     ![i].vote_count = r.vote_count,
                     ![i].user_vote = r.user_vote]

ButtonShowsLedger ==
    /\ button.count = VoteSum(votes, ButtonType, ButtonId)
    /\ button.user_vote = SelectVote(votes, Voter, ButtonType, ButtonId)

NothingUnderWay ==
    /\ \A p \in Procs : calls[p].pc = "idle"
    /\ \A j \in 1..Len(requests) : requests[j].state = "done"

\* The component is built: the signals are set and the fetch is spawned.
\* initial_count is what the page that holds the button was given.
Mount(initial_count) ==
    /\ ~button.mounted
    /\ \A p \in Procs : calls[p].pc = "idle"
    /\ button' = [mounted |-> TRUE, count |-> initial_count, user_vote |-> None]
    /\ requests' = <<[Request("get", 0, FALSE) EXCEPT
                        !.prev_count = initial_count, !.prev_vote = None,
                        !.shown_count = initial_count, !.shown_vote = None]>>
    /\ resp' = NoResp
    /\ UNCHANGED <<ledgerVars, commentVars, forumVars, now, statsVars>>

\* cast(value): the click handler, run to its end; the POST is spawned.
Click(value) ==
    /\ button.mounted
    /\ Len(requests) < MaxRequests
    /\ button' = [button EXCEPT !.count = @ + Delta(button.user_vote, value),
                                !.user_vote = NewUserVote(button.user_vote, value)]
    /\ requests' = Append(requests,
                      Request("post", value, ButtonShowsLedger /\ NothingUnderWay))
    /\ resp' = NoResp
    /\ UNCHANGED <<ledgerVars, commentVars, forumVars, now, statsVars>>

\* The server runs the requests it receives, in any order, on its workers.
ServeGet(i) ==
    /\ i \in 1..Len(requests)
    /\ requests[i].kind = "get" /\ requests[i].state = "sent"
    /\ GetVotes(Clicker, ButtonType, ButtonId)
    /\ requests' = Answered([requests EXCEPT ![i].reached = TRUE], i, resp')

ServeSelect(p, i) ==
    /\ i \in 1..Len(requests)
    /\ requests[i].kind = "post" /\ requests[i].state = "sent"
    /\ CastVoteSelect(p, Clicker,
            [target_type |-> ButtonType, target_id |-> ButtonId,
             value |-> requests[i].value])
    /\ requests' = [requests EXCEPT ![i].state = "serving", ![i].worker = p,
                                    ![i].reached = TRUE]

Serving(p) ==
    {i \in 1..Len(requests) :
        requests[i].state = "serving" /\ requests[i].worker = p}

ServeWrite(p) ==
    /\ Serving(p) # {}
    /\ CastVoteWrite(p)
    /\ requests' = IF resp'.op = "none" THEN requests
                   ELSE Answered(requests, CHOOSE i \in Serving(p) : TRUE, resp')

ServeCount(p) ==
    /\ Serving(p) # {}
    /\ CastVoteCount(p)
    /\ requests' = Answered(requests, CHOOSE i \in Serving(p) : TRUE, resp')

\* The network loses a request before the server has it, or its response.
Lose(i) ==
    /\ i \in 1..Len(requests)
    /\ requests[i].state \in {"sent", "answered"}
    /\ requests' = [requests EXCEPT ![i].state = "failed"]
    /\ button' = button
    /\ resp' = NoResp
    /\ UNCHANGED <<ledgerVars, commentVars, forumVars, now, statsVars>>

\* The spawned future resumes: Ok(vr) sets the signals from the response;
\* Err, which is also any status that is not 2xx, rolls a POST back to what
\* its click captured and leaves the button alone after a GET.
Settle(i) ==
    LET r == requests[i]
    IN
    /\ i \in 1..Len(requests)
    /\ r.state \in {"answered", "failed"}
    /\ button' = IF r.state = "answered" /\ r.status = 200
                 THEN [button EXCEPT !.count = r.vote_count,
                                     !.user_vote = r.user_vote]
                 ELSE IF r.kind = "post"
                 THEN [button EXCEPT !.count = r.prev_count,
                                     !.user_vote = r.prev_vote]
                 ELSE button
    /\ requests' = [requests EXCEPT ![i].state = "done"]
    /\ resp' = NoResp
    /\ UNCHANGED <<ledgerVars, commentVars, forumVars, now, statsVars>>

\* The button in a page. Before it is there, votes are cast on its target;
\* once it is there, only the button's requests reach the server.
ButtonNext ==
    \/ \E h \in ValidHeaders, pl \in Payloads(TargetTypes, TargetIds, Clicks) :
            ~button.mounted /\ CastVoteSelect(Voter, h, pl)
            /\ UNCHANGED <<obsVars, uiVars>>
    \/ ~button.mounted /\ CastVoteWrite(Voter) /\ UNCHANGED <<obsVars, uiVars>>
    \/ ~button.mounted /\ CastVoteCount(Voter) /\ UNCHANGED <<obsVars, uiVars>>
    \/ \E initial_count \in {0, VoteSum(votes, ButtonType, ButtonId)} :
            Mount(initial_count) /\ UNCHANGED obsVars
    \/ \E value \in Clicks : Click(value) /\ UNCHANGED obsVars
    \/ \E i \in 1..MaxRequests : ServeGet(i) /\ button' = button /\ UNCHANGED obsVars
    \/ \E p \in Procs, i \in 1..MaxRequests :
            ServeSelect(p, i) /\ button' = button /\ UNCHANGED obsVars
    \/ \E p \in Procs : ServeWrite(p) /\ button' = button /\ UNCHANGED obsVars
    \/ \E p \in Procs : ServeCount(p) /\ button' = button /\ UNCHANGED obsVars
    \/ \E i \in 1..MaxRequests : Lose(i) /\ UNCHANGED obsVars
    \/ \E i \in 1..MaxRequests : Settle(i) /\ UNCHANGED obsVars

SpecButton == Init /\ [][ButtonNext]_vars

\* Comments written and deleted while votes are cast on their ids and read.
LifecycleNext ==
    \/ \E h \in ValidHeaders, pl \in Payloads({"comment"}, {1}, {1}) :
            CastVoteSelect(Voter, h, pl) /\ UNCHANGED <<obsVars, uiVars>>
    \/ CastVoteWrite(Voter) /\ UNCHANGED <<obsVars, uiVars>>
    \/ CastVoteCount(Voter) /\ UNCHANGED <<obsVars, uiVars>>
    \/ \E h \in Readers : GetVotes(h, "comment", 1) /\ UNCHANGED <<obsVars, uiVars>>
    \/ \E h \in ValidHeaders :
            CreateComment(h, "post-a", <<"Hello">>) /\ UNCHANGED <<obsVars, uiVars>>
    \/ \E h \in ValidHeaders, id \in 1..MaxComments :
            DeleteComment(h, id) /\ UNCHANGED <<obsVars, uiVars>>
    \/ ListComments("post-a") /\ UNCHANGED <<obsVars, uiVars>>

SpecLifecycle == Init /\ [][LifecycleNext]_vars

\* ------------------------------------------------------------------ properties
\* The rows of a target, and its tally: live up-votes minus live down-votes.
RowsOn(tbl, tt, tid) ==
    {r \in BagToSet(tbl) : r.target_type = tt /\ r.target_id = tid}

Tally(tbl, tt, tid) ==
    Cardinality({u \in Users : BagIn(VoteRow(u, tt, tid, 1), tbl)})
    - Cardinality({u \in Users : BagIn(VoteRow(u, tt, tid, -1), tbl)})

RowsOf(tbl, u, tt, tid) == {r \in BagToSet(tbl) : SameKey(r, u, tt, tid)}

\* C1: in every reachable state, under any interleaving of cast_vote calls,
\* the ledger holds at most one row per (user_id, target_type, target_id).
C1_OneRowPerKey ==
    \A r \in BagToSet(votes) :
        /\ votes[r] = 1
        /\ \A q \in BagToSet(votes) :
              SameKey(q, r.user_id, r.target_type, r.target_id) => q = r

\* Two overlapping inserts of one key met: the second was refused, one row stays.
C1_Witness ==
    /\ resp.op = "cast_vote"
    /\ resp.status = 500
    /\ RowsOf(votes, resp.user_id, resp.target_type, resp.target_id) # {}

\* C3: every vote_count reported by get_votes, by cast_vote after its write,
\* by list_comments for a comment and by get_thread for a reply is the sum of
\* the values of the rows now in the ledger for that (target_type, target_id),
\* 0 when there are none; a deleted vote counts for nothing.
C3_CountsAreLedgerSums ==
    /\ (resp.op \in {"get_votes", "cast_vote"} /\ resp.status = 200) =>
          resp.vote_count = Tally(votes, resp.target_type, resp.target_id)
    /\ resp.op = "list_comments" =>
          \A i \in DOMAIN resp.items :
              resp.items[i].vote_count = Tally(votes, "comment", resp.items[i].id)
    /\ (resp.op = "get_thread" /\ resp.status = 200) =>
          \A i \in DOMAIN resp.replies :
              resp.replies[i].vote_count = Tally(votes, "reply", resp.replies[i].id)

\* A comment listed with both users' up-votes while the reply of the same id
\* has a different tally.
C3_Witness ==
    /\ resp.op = "list_comments"
    /\ \E i \in DOMAIN resp.items :
          /\ resp.items[i].vote_count = 2
          /\ Tally(votes, "reply", resp.items[i].id) < 0

\* One cast_vote call run as one unit on ledger tbl.
SerialCast(tbl, u, tt, tid, v) ==
    LET existing == SelectVote(tbl, u, tt, tid)
        ins == InsertVote(tbl, u, tt, tid, v)
        after == IF existing = Some(v) THEN DeleteVote(tbl, u, tt, tid)
                 ELSE IF existing # None THEN UpdateVote(tbl, u, tt, tid, v)
                 ELSE ins.tbl
        ok == existing # None \/ ins.ok
    IN [tbl |-> after,
        status |-> IF ok THEN 200 ELSE 500,
        vote_count |-> IF ok THEN VoteSum(after, tt, tid) ELSE 0,
        user_vote |-> IF ok /\ existing # Some(v) THEN Some(v) ELSE None]

SameOutcome(o, s) ==
    o.status = s.status /\ o.vote_count = s.vote_count /\ o.user_vote = s.user_vote

\* The calls of p and q, first p then q, run one after the other from ledger
\* `before`, give the two outcomes observed and the ledger as it is now.
SerialOrder(p, q) ==
    LET a == obs[p]
        b == obs[q]
        first == SerialCast(a.before, a.user_id, a.target_type, a.target_id, a.value)
        second == SerialCast(first.tbl, b.user_id, b.target_type, b.target_id, b.value)
    IN SameOutcome(a, first) /\ SameOutcome(b, second) /\ votes = second.tbl

OverlappingPair(p, q) ==
    /\ p # q
    /\ obs[p].done /\ obs[q].done
    /\ obs[p].mate = q /\ obs[q].mate = p
    /\ obs[p].user_id = obs[q].user_id
    /\ obs[p].target_type = obs[q].target_type
    /\ obs[p].target_id = obs[q].target_id

\* C2: two concurrent cast_vote calls by one user on one target both succeed,
\* and the ledger and the two responses are those of some serial execution.
C2_SerialisablePair ==
    \A p, q \in Procs :
        OverlappingPair(p, q) =>
            /\ obs[p].status = 200 /\ obs[q].status = 200
            /\ SerialOrder(p, q) \/ SerialOrder(q, p)

\* C4: u has no vote on t; cast_vote(u,t,v) and then cast_vote(u,t,v) again,
\* with nothing in between: the second returns no user_vote and the aggregate
\* of before the first call, and the ledger is as it was before the first.
ToggleTwice ==
    /\ Len(hist) = 2
    /\ hist[1].user_id = hist[2].user_id
    /\ hist[1].target_type = hist[2].target_type
    /\ hist[1].target_id = hist[2].target_id
    /\ hist[1].value = hist[2].value
    /\ RowsOf(hist[1].before, hist[1].user_id, hist[1].target_type,
              hist[1].target_id) = {}

C4_IdempotentToggle ==
    ToggleTwice =>
        /\ hist[2].status = 200
        /\ hist[2].user_vote = None
        /\ hist[2].vote_count =
              Tally(hist[1].before, hist[1].target_type, hist[1].target_id)
        /\ InFlight = {} => votes = hist[1].before

\* The toggle happened on a target another user has voted on.
C4_Witness ==
    /\ ToggleTwice
    /\ InFlight = {}
    /\ hist[1].before # EmptyBag
    /\ hist[1].user_vote = Some(hist[1].value)

\* C5 as stated: for every u and t, cast_vote(u,t,+1) and then
\* cast_vote(u,t,-1), with nothing in between: the second returns user_vote
\* -1 and a vote_count 2 below the first call's, and u has one row on t.
UpThenDown ==
    /\ Len(hist) = 2
    /\ hist[1].user_id = hist[2].user_id
    /\ hist[1].target_type = hist[2].target_type
    /\ hist[1].target_id = hist[2].target_id
    /\ hist[1].value = 1
    /\ hist[2].value = -1

SwitchedDown ==
    /\ hist[2].status = 200
    /\ hist[2].user_vote = Some(-1)
    /\ hist[2].vote_count = hist[1].vote_count - 2
    /\ InFlight = {} =>
          /\ RowsOf(votes, hist[2].user_id, hist[2].target_type, hist[2].target_id)
               = {VoteRow(hist[2].user_id, hist[2].target_type, hist[2].target_id, -1)}
          /\ BagCardinality(votes) = BagCardinality(hist[2].before)

C5_Original == UpThenDown => SwitchedDown

\* C5, amended: the same, when u did not already hold a +1 vote on t before
\* the first call (so that the first call leaves u with a +1 vote).
HadNoUpVote ==
    ~BagIn(VoteRow(hist[1].user_id, hist[1].target_type, hist[1].target_id, 1),
           hist[1].before)

C5_SwitchNotDoubleCount ==
    (UpThenDown /\ HadNoUpVote) =>
        /\ hist[1].user_vote = Some(1)
        /\ SwitchedDown

\* The switch happened while another user's vote stood on the target.
C5_Witness ==
    /\ UpThenDown /\ HadNoUpVote
    /\ InFlight = {}
    /\ Cardinality(RowsOn(votes, hist[2].target_type, hist[2].target_id)) = 2

\* C6: from a target with no votes, cast_vote(+1) by one user and then by
\* another return vote_count 1 and 2, each with user_vote 1; and no step of a
\* user's cast_vote creates, changes or deletes a row of another user.
TwoUsersUp ==
    /\ Len(hist) = 2
    /\ hist[1].user_id # hist[2].user_id
    /\ hist[1].target_type = hist[2].target_type
    /\ hist[1].target_id = hist[2].target_id
    /\ hist[1].value = 1 /\ hist[2].value = 1
    /\ RowsOn(hist[1].before, hist[1].target_type, hist[1].target_id) = {}

C6_CountsOneThenTwo ==
    TwoUsersUp =>
        /\ hist[1].status = 200 /\ hist[2].status = 200
        /\ hist[1].vote_count = 1 /\ hist[1].user_vote = Some(1)
        /\ hist[2].vote_count = 2 /\ hist[2].user_vote = Some(1)

OthersRowsKept(u) ==
    \A r \in BagToSet(votes) \cup BagToSet(votes') :
        r.user_id # u => CopiesIn(r, votes') = CopiesIn(r, votes)

C6_OwnRowsOnly ==
    votes' # votes =>
        \E p \in Procs :
            /\ calls[p].pc = "write" /\ calls'[p].pc # "write"
            /\ OthersRowsKept(calls[p].user_id)

C6_UsersIndependent == [](C6_CountsOneThenTwo) /\ [][C6_OwnRowsOnly]_vars

C6_Witness == TwoUsersUp /\ InFlight = {}

\* C7: a cast_vote whose value is neither +1 nor -1 (0 included) is rejected
\* with 400 (of a caller whose credential resolves to a user) and changes
\* nothing; so every stored row has value +1 or -1.
C7_ValuesStored == \A r \in BagToSet(votes) : r.value \in {1, -1}

C7_Rejected400 ==
    (resp.op = "cast_vote" /\ resp.value \notin {1, -1}) =>
        /\ resp.status \in {400, 401}
        /\ resp.user_id # 0 => resp.status = 400

C7_NothingWritten ==
    (resp'.op = "cast_vote" /\ resp'.value \notin {1, -1}) =>
        votes' = votes /\ calls' = calls

C7_BadValueRejected ==
    [](C7_ValuesStored /\ C7_Rejected400) /\ [][C7_NothingWritten]_vars

C7_Witness ==
    /\ resp.op = "cast_vote" /\ resp.value = 0 /\ resp.status = 400
    /\ votes # EmptyBag

\* C8: an authenticated cast_vote with value +1 or -1 succeeds whatever the
\* target_type and target_id, and a get_votes then reports that vote.
C8_AlwaysSucceeds ==
    (resp.op = "cast_vote" /\ resp.user_id # 0 /\ resp.value \in {1, -1}) =>
        /\ resp.status = 200
        /\ resp.user_vote =
              SelectVote(votes, resp.user_id, resp.target_type, resp.target_id)

\* C9: get_votes succeeds under any Authorization header with the same
\* vote_count; user_vote is there exactly when the header carries a valid
\* token of a user with a row on the target, and is that row's value.
C9_GetVotesOpen ==
    resp.op = "get_votes" =>
        /\ resp.status = 200
        /\ resp.vote_count = Tally(votes, resp.target_type, resp.target_id)
        /\ LET mine == RowsOf(votes, resp.headers.sub, resp.target_type, resp.target_id)
           IN IF resp.headers.kind = "valid" /\ mine # {}
              THEN resp.user_vote = {r.value : r \in mine}
              ELSE resp.user_vote = None

\* An expired token of a user who has voted: the count is served, not the vote.
C9_Witness ==
    /\ resp.op = "get_votes"
    /\ resp.headers.kind = "expired"
    /\ RowsOf(votes, resp.headers.sub, resp.target_type, resp.target_id) # {}
    /\ resp.vote_count # 0

\* C10: delete_comment removes a comment only for its author; called by
\* another user, or with an id no comment has, it answers 404 in both cases,
\* removes no row, and list_comments still returns the comment.
StillListed(id) ==
    \A c \in comments :
        c.id = id =>
            \E item \in SelectComments(comments', votes', c.post_slug) :
                item.id = id /\ item.body = c.body /\ item.user_id = c.user_id

C10_DeleteStep ==
    /\ \A c \in comments \ comments' :
          /\ resp'.op = "delete_comment" /\ resp'.status = 204
          /\ resp'.id = c.id /\ resp'.user_id = c.user_id
    /\ (resp'.op = "delete_comment" /\ resp'.user_id # 0) =>
          LET own == {c \in comments :
                         c.id = resp'.id /\ c.user_id = resp'.user_id}
          IN IF own = {}
             THEN /\ resp'.status = 404
                  /\ comments' = comments
                  /\ StillListed(resp'.id)
             ELSE /\ resp'.status = 204
                  /\ comments' = comments \ own

C10_OnlyAuthorDeletes == [][C10_DeleteStep]_vars

\* A user was refused the deletion of another user's comment, which stays.
C10_Witness ==
    /\ resp.op = "delete_comment"
    /\ resp.status = 404
    /\ \E c \in comments : c.id = resp.id /\ c.user_id # resp.user_id
    /\ resp.user_id # 0

\* C11: create_reply with a body that is not empty after sanitization, on a
\* thread id no thread has, answers 404 and stores no reply; so every reply's
\* thread_id is the id of a thread.
C11_RepliesHaveThreads ==
    \A r \in replies : \E t \in threads : t.id = r.thread_id

C11_NoThreadStep ==
    \A h \in ValidHeaders, id \in 1..(FewThreads + 1), raw \in RawTexts :
        (/\ CreateReply(h, id, raw)
         /\ trim(clean(raw)) # <<>>
         /\ ~\E t \in threads : t.id = id) =>
            /\ resp'.status = 404
            /\ replies' = replies /\ reply_seq' = reply_seq

C11_ReplyNeedsThread ==
    [](C11_RepliesHaveThreads) /\ [][C11_NoThreadStep]_vars

\* A reply to a missing thread was refused while a thread with a reply exists.
C11_Witness ==
    /\ resp.op = "create_reply"
    /\ resp.status = 404
    /\ replies # {}

\* C12: create_comment judges emptiness on the sanitized text: it answers 400
\* and inserts nothing exactly when nothing but white space is left of the
\* body once its markup is stripped; otherwise it stores and returns the
\* sanitized body, never the raw one.
NoMarkup(text) == \A i \in DOMAIN text : text[i] # "script"

TextOf(text) == SelectSeq(text, LAMBDA piece : piece \notin {"sp", "script"})

BlankOnceStripped(text) == TextOf(text) = <<>>

C12_StoredBodies ==
    \A c \in comments : NoMarkup(c.body) /\ ~BlankOnceStripped(c.body)

C12_CreateStep ==
    \A h \in ValidHeaders, slug \in Slugs, raw \in CommentTexts :
        CreateComment(h, slug, raw) =>
            IF BlankOnceStripped(raw)
            THEN /\ resp'.status = 400
                 /\ comments' = comments /\ comment_seq' = comment_seq
            ELSE /\ resp'.status = 200
                 /\ \E c \in comments' \ comments :
                       /\ comments' = comments \cup {c}
                       /\ NoMarkup(c.body) /\ TextOf(c.body) = TextOf(raw)
                       /\ Len(c.body) = Len(raw) - Len(SelectSeq(raw, LAMBDA piece : piece = "script"))
                       /\ \E item \in resp'.comment :
                             item.id = c.id /\ item.body = c.body

C12_EmptinessOnSanitized ==
    [](C12_StoredBodies) /\ [][C12_CreateStep]_vars

\* A body that was markup and text is stored and returned as its text alone,
\* after a body of markup alone was refused.
C12_Witness ==
    /\ resp.op = "create_comment"
    /\ resp.status = 200
    /\ \E item \in resp.comment :
          item.body = <<"Hello">> /\ \E c \in comments : c.id = item.id

\* C13: for any category, a request for a page <= 0, or for no page, gets
\* exactly the responses a request for page 1 can get on the same store: the
\* same items, total, page (= 1) and per_page.
LowPages == {None, Some(i64(0)), Some(i64(-1)), Some(I64Min)}

C13_PageClamped ==
    \A category \in ListedSlugs :
        LET first == list_threads(threads, replies, category, Some(i64(1)))
        IN \A page \in LowPages :
              LET got == list_threads(threads, replies, category, page)
              IN /\ got = first
                 /\ \A answer \in got :
                       /\ answer.status \in {200, 404}
                       /\ answer.status = 200 => answer.page = <<1, 0, 0, 0>>

\* Page 0 was asked of a category with more threads than one page holds.
C13_Witness ==
    /\ resp.op = "list_threads"
    /\ resp.asked = Some(i64(0))
    /\ resp.status = 200
    /\ Len(resp.items) = 20
    /\ resp.total = 21

\* C14: for an existing category list_threads always answers with per_page =
\* 20, at most 20 items, page = the clamped request and total = the number of
\* threads of the category; a page past the last one has no items, the same
\* total, and is no error.
ThreadsIn(category) ==
    {t \in threads : \E id \in DOMAIN Categories :
        Categories[id] = category /\ t.category_id = id}

AskedPage(asked) ==
    IF asked = None THEN <<1, 0, 0, 0>>
    ELSE LET x == CHOOSE x \in asked : TRUE
         IN IF x[4] >= 2^15 \/ x = <<0, 0, 0, 0>> THEN <<1, 0, 0, 0>> ELSE x

PastTheLast(page, total) ==
    \/ page[4] # 0 \/ page[3] # 0 \/ page[2] # 0
    \/ (page[1] - 1) * 20 >= total

C14_PageShape ==
    (resp.op = "list_threads" /\ \E id \in DOMAIN Categories :
                                    Categories[id] = resp.category) =>
        /\ resp.status = 200
        /\ resp.per_page = 20
        /\ Len(resp.items) <= 20
        /\ resp.page = AskedPage(resp.asked)
        /\ resp.total = Cardinality(ThreadsIn(resp.category))
        /\ PastTheLast(resp.page, resp.total) => resp.items = <<>>

\* C15: the cache answers from the slot exactly when the slot is filled and
\* younger than an hour, with the payload of the slot and no fetch; with an
\* empty slot, or one an hour old or older, it fetches, and a fetch that
\* succeeds replaces the slot with its payload and the time of the write.
SlotServes ==
    \E c \in cache : instant - c.fetched_at < 3600

C15_CheckStep ==
    \A p \in Procs :
        (jobs[p].pc = "reading" /\ jobs'[p].pc # "reading") =>
            IF SlotServes
            THEN /\ resp'.op = "get_github_stats" /\ resp'.status = 200
                 /\ resp'.stats = {c.stats : c \in cache}
                 /\ resp'.fetch = 0
                 /\ jobs'[p].pc = "idle"
                 /\ fetches' = fetches /\ cache' = cache
            ELSE /\ jobs'[p].pc = "repo"
                 /\ fetches' = fetches + 1
                 /\ jobs'[p].fetch = fetches'
                 /\ cache' = cache

C15_StoreStep ==
    \A p \in Procs :
        (jobs[p].pc = "writing" /\ jobs'[p].pc # "writing") =>
            /\ resp'.op = "get_github_stats" /\ resp'.status = 200
            /\ resp'.fetch = jobs[p].fetch
            /\ \E stats \in resp'.stats :
                  /\ stats.fetch = jobs[p].fetch
                  /\ cache' = {[stats |-> stats, fetched_at |-> instant]}

C15_ServesWithinTheHour == [][C15_CheckStep /\ C15_StoreStep]_vars

\* Served from a slot 3599 seconds old, after fetches.
C15_Witness ==
    /\ resp.op = "get_github_stats" /\ resp.status = 200 /\ resp.fetch = 0
    /\ instant = 3600
    /\ \E c \in cache : c.fetched_at = 1

\* C16: when the external fetch fails, get_github_stats answers 502 and the
\* slot stays as it was.
C16_FailedStep ==
    \A p \in Procs, o \in {"bad", "down"} :
        (FetchRepo(p, o) \/ FetchLanguages(p, o) \/ FetchCommits(p, o)
            \/ FetchCrates(p, o)) =>
                /\ resp'.op = "get_github_stats"
                /\ resp'.status = 502
                /\ cache' = cache

C16_FailedFetchIs502 == [][C16_FailedStep]_vars

\* C17: under any interleaving of requests the slot is empty or holds
\* the whole {stats, fetched_at} one fetch wrote, a request served from the
\* slot returns the payload of the slot, and no request holds the lock while
\* it fetches.
C17_LockState ==
    /\ Cardinality(lock.writer) <= 1
    /\ lock.writer # {} => lock.readers = {}
    /\ \A p \in Procs :
          /\ p \in lock.readers <=> jobs[p].pc = "reading"
          /\ p \in lock.writer <=> jobs[p].pc = "writing"
    /\ \A c \in cache :
          /\ c.stats.fetch \in 1..fetches
          /\ c.fetched_at <= instant
    /\ (resp.op = "get_github_stats" /\ resp.status = 200) =>
          \E stats \in resp.stats : stats.fetch \in 1..fetches

C17_SlotStep ==
    /\ cache' # cache =>
          \E p \in Procs :
              /\ lock.writer = {p}
              /\ cache' = {[stats |-> GitHubStats(jobs[p]), fetched_at |-> instant]}
    /\ (resp'.op = "get_github_stats" /\ resp'.status = 200 /\ resp'.fetch = 0) =>
          /\ lock.readers # {}
          /\ resp'.stats = {c.stats : c \in cache}
          /\ cache' = cache

C17_SlotNeverTorn == [](C17_LockState) /\ [][C17_SlotStep]_vars

\* A request holds the write guard over a filled slot while another is in
\* the middle of its fetch.
C17_Witness ==
    /\ lock.writer # {}
    /\ cache # None
    /\ \E q \in Procs : jobs[q].pc = "commits"

\* C18: a request whose upstream never answers still ends (with 502).
C18_NoHang ==
    \A p \in Procs : (jobs[p].pc # "idle") ~> (jobs[p].pc = "idle")

\* ------------------------------------------------------------------ C19
\* C19: a request for cast_vote, create_comment, delete_comment,
\* create_thread, create_reply or me whose credential is missing, malformed,
\* wrongly signed or expired is answered 401 and changes no table, whatever
\* its body and path are.
Tables == <<votes, comments, comment_seq, threads, thread_seq, replies, reply_seq>>

\* The step answers a request that carries credential h.
BearerRequest(h) ==
    \/ \E pl \in Payloads(TargetTypes, TargetIds, {1, 2}) : CastVoteSelect(Voter, h, pl)
    \/ \E raw \in RawTexts : CreateComment(h, "post-a", raw)
    \/ \E id \in 1..FewThreads : DeleteComment(h, id)
    \/ \E slug \in CategorySlugs, raw \in RawTexts : CreateThread(h, slug, raw, raw)
    \/ \E id \in 1..(FewThreads + 1), raw \in RawTexts : CreateReply(h, id, raw)
    \/ Me(h)

MalformedRequest(h) ==
    \/ \E op \in JsonOps, st \in JsonRejections : RejectJson(op, h, st)
    \/ \E op \in PathOps, st \in PathRejections : RejectPath(op, h, st)

Answered401 == resp'.op # "none" /\ resp'.status = 401 /\ Tables' = Tables

C19_BadCredentialIs401 ==
    [][\A h \in BadCredentials :
         (BearerRequest(h) \/ MalformedRequest(h)) => Answered401]_vars

\* The same for the requests whose body and path extract.
C19_WellFormedIs401 ==
    [][\A h \in BadCredentials : BearerRequest(h) => Answered401]_vars

\* A request without a usable credential is answered 401 with the tables
\* full, and nothing is changed.
C19_WellFormedWitness ==
    /\ resp.op \in {"cast_vote", "create_comment", "delete_comment",
                    "create_thread", "create_reply", "me"}
    /\ resp.status = 401
    /\ votes # EmptyBag
    /\ comments # {}
    /\ threads # {}

\* ------------------------------------------------------------------ C20
\* C20: a request in which taking a connection, a read or a write fails is
\* answered 500 at that step: not with a success, and not with another error
\* status.
Surfaced == resp'.op # "none" /\ resp'.status = 500

C20_FailingStep ==
    /\ \A h \in ValidHeaders, pl \in Payloads(TargetTypes, TargetIds, {-1, 1}),
          failed \in CastVoteSteps :
            CastVoteSelectFailing(Voter, h, pl, failed) => Surfaced
    /\ CastVoteWriteFailing(Voter) => Surfaced
    /\ CastVoteCountFailing(Voter) => Surfaced
    /\ \A h \in Readers, failed \in GetVotesSteps :
            GetVotesFailing(h, "gadget", 1, failed) => Surfaced
    /\ \A slug \in CategorySlugs, page \in FaultPages, failed \in ListThreadsSteps :
            ListThreadsFailing(slug, page, failed) => Surfaced

C20_StorageErrorIs500 == [][C20_FailingStep]_vars

\* The failures the handlers do map to 500: the pool, the vote's write, the
\* preparation of the thread query.
C20_MappedStep ==
    /\ \A h \in ValidHeaders, pl \in Payloads(TargetTypes, TargetIds, {-1, 1}) :
            CastVoteSelectFailing(Voter, h, pl, "pool") => Surfaced
    /\ CastVoteWriteFailing(Voter) => Surfaced
    /\ \A h \in Readers : GetVotesFailing(h, "gadget", 1, "pool") => Surfaced
    /\ \A slug \in CategorySlugs, page \in FaultPages, failed \in {"pool", "prepare"} :
            ListThreadsFailing(slug, page, failed) => Surfaced

C20_MappedErrorsAre500 == [][C20_MappedStep]_vars

\* ------------------------------------------------------------------ C21
\* C21: the reply_count that list_threads, get_thread and create_thread
\* report for a thread is the number of reply rows of that thread when the
\* response is built.
RepliesOf(id) == Cardinality({r \in replies : r.thread_id = id})

C21_Listed ==
    (resp.op = "list_threads" /\ resp.status = 200) =>
        \A i \in 1..Len(resp.items) :
            resp.items[i].reply_count = RepliesOf(resp.items[i].id)

C21_Fetched ==
    (resp.op = "get_thread" /\ resp.status = 200) =>
        \A t \in resp.thread : t.reply_count = RepliesOf(t.id)

C21_Created ==
    (resp.op = "create_thread" /\ resp.status = 200) =>
        \A t \in resp.thread : t.reply_count = RepliesOf(t.id)

C21_ReplyCountTrue == C21_Listed /\ C21_Fetched /\ C21_Created

\* The counts of the two reads alone.
C21_ReadCountsTrue == C21_Listed /\ C21_Fetched

\* A thread is read back with its one reply counted.
C21_ReadWitness ==
    /\ resp.op \in {"list_threads", "get_thread"}
    /\ resp.status = 200
    /\ replies # {}
    /\ \/ resp.op = "get_thread" /\ \E t \in resp.thread : t.reply_count = 1
       \/ resp.op = "list_threads"
          /\ \E i \in 1..Len(resp.items) : resp.items[i].reply_count = 1

\* ------------------------------------------------------------------ C22
\* C22: no payload that get_github_stats returns or caches holds a default
\* in the place of what a failed or malformed fetch step did not give: the
\* commit count is the one of the listing and the crate count the one of
\* the directory listing.
Genuine(stats) ==
    stats.commits = LastPage /\ stats.crate_count = CrateDirs + 2

C22_NoSubstitutedDefault ==
    /\ \A c \in cache : Genuine(c.stats)
    /\ (resp.op = "get_github_stats" /\ resp.status = 200) =>
            \A stats \in resp.stats : Genuine(stats)

\* The two steps whose failure fetch_stats reports.
C22_ReportedStep ==
    \A p \in Procs, o \in {"bad", "down"} :
        (FetchRepo(p, o) \/ FetchLanguages(p, o)) =>
            /\ resp'.op = "get_github_stats"
            /\ resp'.status = 502
            /\ cache' = cache

C22_MetadataFailureIs502 == [][C22_ReportedStep]_vars

\* ------------------------------------------------------------------ C23
\* C23: an authenticated create_thread that names no category, and an
\* authenticated create_reply that names no thread, are answered 404,
\* whatever the title and body sanitize to.
C23_UnknownStep ==
    \A h \in Author, raw \in RawTexts :
        /\ CreateThread(h, "nowhere", raw, raw) => resp'.status = 404
        /\ \A id \in 1..(FewThreads + 1) :
                (CreateReply(h, id, raw) /\ SelectThreadId(threads, id) = None)
                    => resp'.status = 404

C23_ExistenceFirst == [][C23_UnknownStep]_vars

\* The same for the texts that are not empty once sanitized.
C23_UnknownWithTextStep ==
    \A h \in Author, raw \in {r \in RawTexts : trim(clean(r)) # <<>>} :
        /\ CreateThread(h, "nowhere", raw, raw) => resp'.status = 404
        /\ \A id \in 1..(FewThreads + 1) :
                (CreateReply(h, id, raw) /\ SelectThreadId(threads, id) = None)
                    => resp'.status = 404

C23_ExistenceWithText == [][C23_UnknownWithTextStep]_vars

\* ------------------------------------------------------------------ C24
\* C24: a page number too large for any list of threads, whatever 64-bit
\* value it is, is answered 200 with no items and the true total: the offset
\* (page - 1) * 20 neither overflows nor wraps.
Huge(page) == page[4] # 0 \/ page[3] # 0 \/ page[2] # 0

C24_HugePageIsEmpty ==
    (/\ resp.op = "list_threads"
     /\ \E id \in DOMAIN Categories : Categories[id] = resp.category
     /\ Huge(AskedPage(resp.asked))) =>
        /\ resp.status = 200
        /\ resp.items = <<>>
        /\ resp.total = Cardinality(ThreadsIn(resp.category))

\* ------------------------------------------------------------------ C25
\* C25: the vote_count 0 that create_comment and create_reply return is the
\* ledger's: a list_comments or get_thread that is the very next step
\* reports 0 for the new item.
C25_CommentStep ==
    (resp.op = "create_comment" /\ resp.status = 200
        /\ resp'.op = "list_comments") =>
            \A c \in resp.comment, i \in 1..Len(resp'.items) :
                resp'.items[i].id = c.id =>
                    resp'.items[i].vote_count = c.vote_count

C25_ReplyStep ==
    (resp.op = "create_reply" /\ resp.status = 200
        /\ resp'.op = "get_thread" /\ resp'.status = 200) =>
            \A r \in resp.reply, i \in 1..Len(resp'.replies) :
                resp'.replies[i].id = r.id =>
                    resp'.replies[i].vote_count = r.vote_count

C25_ZeroAgreesWithLedger == [][C25_CommentStep /\ C25_ReplyStep]_vars

\* The same where nothing was voted on the id before the item had it.
C25_FreshIdStep ==
    /\ (VoteSum(votes, "comment", comment_seq) = 0) => C25_CommentStep
    /\ (VoteSum(votes, "reply", reply_seq) = 0) => C25_ReplyStep

C25_ZeroOnFreshId == [][C25_FreshIdStep]_vars

\* ------------------------------------------------------------------ C26
\* C26: the metrics a request for a repository is answered with were
\* fetched for that repository.
C26_OwnRepository ==
    (resp.op = "get_github_stats" /\ resp.status = 200) =>
        \A stats \in resp.stats : stats.repo = resp.repo

\* The same for the requests that fetched: fetch_stats asks for query.repo.
C26_FetchedOwnRepository ==
    (resp.op = "get_github_stats" /\ resp.status = 200 /\ resp.fetch # 0) =>
        \A stats \in resp.stats : stats.repo = resp.repo

\* ------------------------------------------------------------------ C27
\* C27: when the button shows the ledger's count and the user's stored vote
\* and a click's request is the only one the server handles, the count and
\* user_vote the click handler sets are those of the server's response.
RanAlone(i) ==
    /\ requests[i].synced
    /\ \A j \in 1..Len(requests) : j # i => ~requests[j].reached \/ j < i

C27_OptimisticMirrorsServer ==
    \A i \in 1..Len(requests) :
        (requests[i].kind = "post" /\ requests[i].state = "answered"
            /\ RanAlone(i)) =>
                /\ requests[i].status = 200
                /\ requests[i].vote_count = requests[i].shown_count
                /\ requests[i].user_vote = requests[i].shown_vote

\* A click that switches the user's vote, on a target another user has
\* voted on, answered by the server.
C27_Witness ==
    \E i \in 1..Len(requests) :
        /\ requests[i].kind = "post" /\ requests[i].state = "answered"
        /\ RanAlone(i)
        /\ requests[i].prev_vote = Some(-requests[i].value)
        /\ requests[i].prev_count # requests[i].value
        /\ requests[i].prev_count # -requests[i].value

\* ------------------------------------------------------------------ C28
\* C28: once every request of the button is over, whatever the order in
\* which the responses and failures came, the button shows the ledger's
\* count and the user's stored vote.
Quiet ==
    /\ button.mounted
    /\ \A p \in Procs : calls[p].pc = "idle"
    /\ \A i \in 1..Len(requests) : requests[i].state = "done"

C28_ButtonConverges == Quiet => ButtonShowsLedger

\* ------------------------------------------------------------------ C29
\* C29: delete_comment changes no vote, get_votes goes on reporting the
\* votes cast on a deleted comment's id, and a comment created later never
\* has the id of a comment created before it, deleted or not.
C29_DeleteStep ==
    \A h \in ValidHeaders, id \in 1..MaxComments :
        DeleteComment(h, id) => votes' = votes

C29_ReportedStill ==
    (resp.op = "get_votes" /\ resp.status = 200) =>
        resp.vote_count = Tally(votes, resp.target_type, resp.target_id)

C29_CreateStep ==
    \A c \in comments' \ comments :
        /\ c.id > comment_seq
        /\ comment_seq' = c.id

C29_IdsGiven == \A c \in comments : c.id <= comment_seq

C29_VotesOutliveComments ==
    /\ [](C29_ReportedStill /\ C29_IdsGiven)
    /\ [][C29_DeleteStep /\ C29_CreateStep]_vars

\* Comment 1 is deleted and a later comment is there under another id; the
\* votes on id 1 are in the ledger and get_votes reports them.
C29_Witness ==
    /\ comments # {}
    /\ \A c \in comments : c.id > 1
    /\ Tally(votes, "comment", 1) # 0
    /\ resp.op = "get_votes" /\ resp.status = 200
    /\ resp.target_type = "comment" /\ resp.target_id = 1
    /\ resp.vote_count # 0

\* ------------------------------------------------------------------ C30
\* C30: on a store that does not change, the pages 1..ceil(total / 20) that
\* list_threads returns for a category hold every thread of the category
\* exactly once between them, newest first across and within the pages,
\* also where threads share a created_at.
NewestFirst(items) ==
    \A i \in 1..Len(items), j \in 1..Len(items) :
        i < j => items[i].created_at >= items[j].created_at

EachOnce(items, ts) ==
    /\ Len(items) = Cardinality(ts)
    /\ {items[i].id : i \in 1..Len(items)} = {t.id : t \in ts}

\* With at most 21 threads there are at most two pages.
C30_PagesPartition ==
    \A category \in {"general", "projects"} :
        LET ts == ThreadsIn(category)
            first == list_threads(threads, replies, category, Some(i64(1)))
            second == IF Cardinality(ts) > per_page
                      THEN list_threads(threads, replies, category, Some(i64(2)))
                      ELSE {[status |-> 200, items |-> <<>>]}
        IN \A a \in first, b \in second :
              /\ a.status = 200 /\ b.status = 200
              /\ EachOnce(a.items \o b.items, ts)
              /\ NewestFirst(a.items \o b.items)

\* The same where the two queries take the rows of one second in the same
\* order.
C30_PartitionUnderOneOrder ==
    \A category \in {"general", "projects"}, tie \in TieRules :
        LET ts == ThreadsIn(category)
            rows == OrderDesc({ThreadItem(t, replies) : t \in ts}, tie)
            a == Window(rows, per_page, i64(0))
            b == Window(rows, per_page, i64(per_page))
        IN /\ EachOnce(a \o b, ts)
           /\ NewestFirst(a \o b)

====
